---- MODULE Spec2Model ----
(***************************************************************************)
(* Audit, contract and parity engine of Hypercap-CC-NLP.                   *)
(*                                                                         *)
(* The module holds one state machine per component:                       *)
(*   SpecRunner    run_pipeline_with_logs            (pipeline_audit.py)   *)
(*   SpecParity    capture_jupyter_baseline / compare_current_to_baseline  *)
(*                 over a working directory and a baseline store           *)
(*                 (pipeline_parity.py)                                    *)
(*   SpecAudit     load_and_validate_artifacts       (pipeline_audit.py)   *)
(*   SpecContract  build_pipeline_contract_report_for_stages               *)
(*                 (pipeline_contracts.py)                                 *)
(*   SpecCli       the three reporting entry points  (scripts/*.py)        *)
(* The variables of a component that a specification does not exercise     *)
(* stay at their idle value.                                               *)
(*                                                                         *)
(* Conventions.  An optional Python value (None, a missing dict key) is a  *)
(* set with at most one element.  A raised exception is the field exc of   *)
(* the result, "none" when the call returned.  Rates are integers in       *)
(* hundredths (0.04 is 4).  sha256 is taken to be collision free: a hash   *)
(* is modelled by the string it digests, here the sequence that is joined. *)
(***************************************************************************)
EXTENDS Integers, Sequences, FiniteSets, TLC

VARIABLES
    \* ---- run_pipeline_with_logs
    stage_commands,        \* the ordered (stage_id, command) pairs
    run_consistency_check, \* the run_consistency_check argument
    rpc,                   \* position in run_pipeline_with_logs
    idx,                   \* index of the next pair of the for loop
    encountered_failure,
    stage_results,
    launched,              \* history: every subprocess started, with its exit code
    envelope,              \* the returned run envelope (a set, empty before return)
    \* ---- parity: working directory, baseline store, last call
    wd,
    store,
    now,
    last,
    \* ---- load_and_validate_artifacts
    audit_in,
    audit_out,
    \* ---- build_pipeline_contract_report_for_stages
    contract_in,
    contract_out,
    \* ---- entry points
    cli

runnerVars == <<stage_commands, run_consistency_check, rpc, idx,
                encountered_failure, stage_results, launched, envelope>>
parityVars == <<wd, store, now, last>>
auditVars == <<audit_in, audit_out>>
contractVars == <<contract_in, contract_out>>
cliVars == <<cli>>
vars == <<runnerVars, parityVars, auditVars, contractVars, cliVars>>

(***************************************************************************)
(* Bounds of the model.                                                    *)
(***************************************************************************)
MaxStages == 3
MaxExitCode == 2

\* Generic helpers ---------------------------------------------------------
None == {}
Some(v) == {v}
IsNone(o) == o = {}
Get(o) == CHOOSE v \in o : TRUE

SeqsUpTo(S, n) == UNION {[1..k -> S] : k \in 0..n}

CountSev(findings, sev) ==
    Cardinality({i \in 1..Len(findings) : findings[i].severity = sev})

\* Idle values of the components a specification does not exercise --------
RunnerIdle ==
    /\ stage_commands = <<>>
    /\ run_consistency_check = FALSE
    /\ rpc = "idle"
    /\ idx = 1
    /\ encountered_failure = FALSE
    /\ stage_results = <<>>
    /\ launched = <<>>
    /\ envelope = None
ParityIdle ==
    /\ wd = "idle"
    /\ store = "idle"
    /\ now = 0
    /\ last = "idle"
AuditIdle ==
    /\ audit_in = "idle"
    /\ audit_out = "idle"
ContractIdle ==
    /\ contract_in = "idle"
    /\ contract_out = "idle"
CliIdle ==
    /\ cli = "idle"

(***************************************************************************)
(* Stage runner: run_pipeline_with_logs.                                   *)
(***************************************************************************)
PIPELINE_STAGE_COMMANDS ==
    << [stage_id |-> "01_cohort",     command |-> "make notebook-cohort"],
       [stage_id |-> "02_classifier", command |-> "make notebook-classifier"],
       [stage_id |-> "03_rater",      command |-> "make notebook-rater"],
       [stage_id |-> "04_analysis",   command |-> "make notebook-analysis"] >>

StagePairs == {PIPELINE_STAGE_COMMANDS[i] : i \in 1..Len(PIPELINE_STAGE_COMMANDS)}

ExitCodes == 0..MaxExitCode

\* logs_dir / f"{stage_id}.log"
LogPath(stage_id) == <<"logs_dir", stage_id, ".log">>

\* result["status"] = "ok" if result["returncode"] == 0 else "failed"
StageStatus(returncode) == IF returncode = 0 THEN "ok" ELSE "failed"

\* _run_stage_command: starts the subprocess, waits for it, returns its record
\* (timestamps, duration and line count are left out).
RunStageCommand(command, stage_id, log_name, returncode) ==
    [stage_id |-> stage_id,
     command |-> command,
     status |-> StageStatus(returncode),
     returncode |-> Some(returncode),
     log_path |-> LogPath(log_name)]

SkippedRecord(pair) ==
    [stage_id |-> pair.stage_id,
     command |-> pair.command,
     status |-> "skipped",
     returncode |-> None,
     log_path |-> LogPath(pair.stage_id)]

RunnerInit ==
    /\ stage_commands \in SeqsUpTo(StagePairs, MaxStages)
    /\ run_consistency_check \in BOOLEAN
    /\ rpc = "loop"
    /\ idx = 1
    /\ encountered_failure = FALSE
    /\ stage_results = <<>>
    /\ launched = <<>>
    /\ envelope = None
    /\ ParityIdle /\ AuditIdle /\ ContractIdle /\ CliIdle

\* A runner that records a failure but does not remember it.
LaunchStageForgetsFailure ==
    /\ rpc = "loop"
    /\ idx <= Len(stage_commands)
    /\ ~encountered_failure
    /\ \E rc \in ExitCodes :
        LET pair == stage_commands[idx] IN
        /\ stage_results' = Append(stage_results,
               RunStageCommand(pair.command, pair.stage_id, pair.stage_id, rc))
        /\ launched' = Append(launched, [stage_id |-> pair.stage_id, pos |-> idx, rc |-> rc])
        /\ encountered_failure' = FALSE
    /\ idx' = idx + 1
    /\ UNCHANGED <<stage_commands, run_consistency_check, rpc, envelope>>
    /\ UNCHANGED <<parityVars, auditVars, contractVars, cliVars>>

\* One iteration of the for loop when no stage has failed yet.
LaunchStage ==
    /\ rpc = "loop"
    /\ idx <= Len(stage_commands)
    /\ ~encountered_failure
    /\ \E rc \in ExitCodes :
        LET pair == stage_commands[idx] IN
        /\ stage_results' = Append(stage_results,
               RunStageCommand(pair.command, pair.stage_id, pair.stage_id, rc))
        /\ launched' = Append(launched, [stage_id |-> pair.stage_id, pos |-> idx, rc |-> rc])
        /\ encountered_failure' = (rc # 0)
    /\ idx' = idx + 1
    /\ UNCHANGED <<stage_commands, run_consistency_check, rpc, envelope>>
    /\ UNCHANGED <<parityVars, auditVars, contractVars, cliVars>>

\* One iteration of the for loop after a failure: the stage is recorded, not run.
SkipStage ==
    /\ rpc = "loop"
    /\ idx <= Len(stage_commands)
    /\ encountered_failure
    /\ stage_results' = Append(stage_results, SkippedRecord(stage_commands[idx]))
    /\ idx' = idx + 1
    /\ UNCHANGED <<stage_commands, run_consistency_check, rpc,
                   encountered_failure, launched, envelope>>
    /\ UNCHANGED <<parityVars, auditVars, contractVars, cliVars>>

\* The loop is exhausted: the optional consistency run is decided.
EndLoop ==
    /\ rpc = "loop"
    /\ idx > Len(stage_commands)
    /\ rpc' = IF run_consistency_check /\ ~encountered_failure
              THEN "consistency" ELSE "return"
    /\ UNCHANGED <<stage_commands, run_consistency_check, idx,
                   encountered_failure, stage_results, launched, envelope>>
    /\ UNCHANGED <<parityVars, auditVars, contractVars, cliVars>>

\* A consistency run whose exit code does not reach the failure flag.
RunConsistencyIgnoresResult ==
    /\ rpc = "consistency"
    /\ \E rc \in ExitCodes :
        /\ stage_results' = Append(stage_results,
               RunStageCommand("make notebook-pipeline", "05_consistency",
                               "05_consistency", rc))
        /\ launched' = Append(launched,
               [stage_id |-> "05_consistency", pos |-> 0, rc |-> rc])
    /\ rpc' = "return"
    /\ UNCHANGED <<stage_commands, run_consistency_check, idx, envelope,
                   encountered_failure>>
    /\ UNCHANGED <<parityVars, auditVars, contractVars, cliVars>>

\* make notebook-pipeline, logged as 05_consistency.
RunConsistency ==
    /\ rpc = "consistency"
    /\ \E rc \in ExitCodes :
        /\ stage_results' = Append(stage_results,
               RunStageCommand("make notebook-pipeline", "05_consistency",
                               "05_consistency", rc))
        /\ launched' = Append(launched,
               [stage_id |-> "05_consistency", pos |-> 0, rc |-> rc])
        /\ encountered_failure' = (rc # 0)
    /\ rpc' = "return"
    /\ UNCHANGED <<stage_commands, run_consistency_check, idx, envelope>>
    /\ UNCHANGED <<parityVars, auditVars, contractVars, cliVars>>

ReturnEnvelope ==
    /\ rpc = "return"
    /\ envelope' = Some([success |-> ~encountered_failure, stages |-> stage_results])
    /\ rpc' = "done"
    /\ UNCHANGED <<stage_commands, run_consistency_check, idx,
                   encountered_failure, stage_results, launched>>
    /\ UNCHANGED <<parityVars, auditVars, contractVars, cliVars>>

RunnerNext ==
    \/ LaunchStage
    \/ SkipStage
    \/ EndLoop
    \/ RunConsistency
    \/ ReturnEnvelope

SpecRunner == RunnerInit /\ [][RunnerNext]_vars

\* The launches of listed stages, in the order they happened.
ListedLaunches == SelectSeq(launched, LAMBDA l : l.pos > 0)

\* Position of the first listed stage that exited non-zero (0 when none did).
FirstFailure ==
    LET bad == {i \in 1..Len(ListedLaunches) : ListedLaunches[i].rc # 0}
    IN IF bad = {} THEN 0 ELSE ListedLaunches[CHOOSE i \in bad : \A j \in bad : i <= j].pos

(* C1: run_pipeline_with_logs launches the listed stages one at a time in   *)
(* list order and launches no listed stage after one has exited non-zero   *)
(* (the k-th launch is the k-th pair, and every launch before the last one *)
(* exited zero); the returned envelope holds one record per listed stage,  *)
(* in list order: ok before the first failing stage, failed at it, and     *)
(* skipped with returncode None and log_path logs_dir/<stage_id>.log after *)
(* it.                                                                     *)
C1_StageOrderAndRecords ==
    /\ \A k \in 1..Len(ListedLaunches) :
        /\ ListedLaunches[k].pos = k
        /\ ListedLaunches[k].stage_id = stage_commands[k].stage_id
        /\ k < Len(ListedLaunches) => ListedLaunches[k].rc = 0
    /\ \A e \in envelope :
        /\ Len(e.stages) >= Len(stage_commands)
        /\ Len(e.stages) = Len(stage_commands)
             + Cardinality({i \in 1..Len(launched) : launched[i].pos = 0})
        /\ \A i \in 1..Len(stage_commands) :
            /\ e.stages[i].stage_id = stage_commands[i].stage_id
            /\ e.stages[i].command = stage_commands[i].command
            /\ (FirstFailure = 0 \/ i < FirstFailure) =>
                   /\ e.stages[i].status = "ok"
                   /\ e.stages[i].returncode = Some(0)
            /\ (FirstFailure # 0 /\ i = FirstFailure) =>
                   /\ e.stages[i].status = "failed"
                   /\ ~IsNone(e.stages[i].returncode)
                   /\ Get(e.stages[i].returncode) # 0
            /\ (FirstFailure # 0 /\ i > FirstFailure) =>
                   /\ e.stages[i].status = "skipped"
                   /\ IsNone(e.stages[i].returncode)
                   /\ e.stages[i].log_path = <<"logs_dir", stage_commands[i].stage_id, ".log">>

\* A run that returned after a failure in the middle of a three-stage list.
C1_Witness ==
    /\ rpc = "done"
    /\ Len(stage_commands) = 3
    /\ FirstFailure = 2
    /\ \E e \in envelope : e.stages[3].status = "skipped"

(***************************************************************************)
(* Parity: the working directory and its artifacts.                        *)
(***************************************************************************)
MaxRows == 2      \* rows of the cohort / classifier workbook
MaxId == 2        \* hadm_id and subject_id values are 1..MaxId
MaxEdits == 1     \* changes made to the working directory by the pipeline
MaxClock == 3     \* captures made into the baseline store

CANONICAL_COHORT_FILENAME == "MIMIC tabular data/MIMICIV all with CC.xlsx"
CANONICAL_NLP_FILENAME == "MIMIC tabular data/MIMICIV all with CC_with_NLP.xlsx"
QA_SUMMARY == "qa_summary.json"
RATER_JOIN_AUDIT == "annotation_agreement_outputs_nlp/R3_vs_NLP_join_audit.json"
RATER_SUMMARY == "annotation_agreement_outputs_nlp/R3_vs_NLP_summary.txt"

ANALYSIS_EXPORT_FILENAMES ==
    << "Symptom_Composition_by_Hypercapnia_Definition.xlsx",
       "Symptom_Composition_Pivot_ChartReady.xlsx",
       "Symptom_Composition_by_ABG_VBG_Overlap.xlsx",
       "Symptom_Composition_by_ICD_Gas_Overlap.xlsx" >>

AnalysisNames == {ANALYSIS_EXPORT_FILENAMES[i] : i \in 1..Len(ANALYSIS_EXPORT_FILENAMES)}

\* The required artifacts in the order of the tuple.
REQUIRED_RELATIVE_ARTIFACTS ==
    << CANONICAL_COHORT_FILENAME, CANONICAL_NLP_FILENAME, QA_SUMMARY,
       RATER_JOIN_AUDIT, RATER_SUMMARY >> \o ANALYSIS_EXPORT_FILENAMES

Required == {REQUIRED_RELATIVE_ARTIFACTS[i] : i \in 1..Len(REQUIRED_RELATIVE_ARTIFACTS)}

KEY_QA_METRICS ==
    << "icu_link_rate", "pct_any_gas_0_6h", "pct_any_gas_0_24h", "gas_source_other_rate" >>

FIRST_OTHER_METRIC == "first_other_pco2_pct_eq_160_poc"

\* PARITY_THRESHOLDS in dict order, in hundredths.
PARITY_THRESHOLDS ==
    << [metric |-> "icu_link_rate",         warn |-> 4, fail |-> 8],
       [metric |-> "pct_any_gas_0_6h",      warn |-> 4, fail |-> 8],
       [metric |-> "pct_any_gas_0_24h",     warn |-> 4, fail |-> 8],
       [metric |-> "gas_source_other_rate", warn |-> 4, fail |-> 8],
       [metric |-> FIRST_OTHER_METRIC,      warn |-> 5, fail |-> 10] >>

\* A cell of an id column that pd.to_numeric(errors="coerce") turns into NaN.
NonNumericId == 0

IdCells == {NonNumericId} \cup (1..MaxId)

Indices(s) == 1..Len(s)

RECURSIVE SortedInts(_)
SortedInts(S) ==
    IF S = {} THEN <<>>
    ELSE LET m == CHOOSE x \in S : \A y \in S : x <= y
         IN <<m>> \o SortedInts(S \ {m})

PairLeq(p, q) == p[1] < q[1] \/ (p[1] = q[1] /\ p[2] <= q[2])

RECURSIVE SortedPairs(_)
SortedPairs(S) ==
    IF S = {} THEN <<>>
    ELSE LET m == CHOOSE x \in S : \A y \in S : PairLeq(x, y)
         IN <<m>> \o SortedPairs(S \ {m})

\* sha256("|".join(...)).hexdigest(): the digest of the joined values.  The
\* join is injective on integer sequences and sha256 is taken collision free.
Sha256Join(values) == [sha256 |-> values]

\* A signature whose hashes are taken over the numeric ids in row order,
\* neither sorted nor deduplicated.
CohortOrClassifierSignatureInRowOrder(wb) ==
    IF ~wb.readable THEN [exc |-> "ReadError"]
    ELSE IF ~({"hadm_id", "subject_id"} \subseteq wb.columns) THEN [exc |-> "KeyError"]
    ELSE
      LET numeric == SelectSeq(wb.rows, LAMBDA r : r.hadm_id # NonNumericId)
          numeric_subject == SelectSeq(wb.rows, LAMBDA r : r.subject_id # NonNumericId)
          both == SelectSeq(numeric, LAMBDA r : r.subject_id # NonNumericId)
          hadm_ids == {numeric[i].hadm_id : i \in Indices(numeric)}
          subject_ids == {numeric_subject[i].subject_id : i \in Indices(numeric_subject)}
          id_pairs == {<<both[i].hadm_id, both[i].subject_id>> : i \in Indices(both)}
      IN [exc |-> "none",
          rows |-> Len(wb.rows),
          columns |-> wb.columns,
          hadm_id_unique_count |-> Cardinality(hadm_ids),
          subject_id_unique_count |-> Cardinality(subject_ids),
          id_pair_unique_count |-> Cardinality(id_pairs),
          hadm_id_hash |-> Sha256Join([i \in Indices(numeric) |-> numeric[i].hadm_id]),
          subject_id_hash |->
              Sha256Join([i \in Indices(numeric_subject) |-> numeric_subject[i].subject_id]),
          id_pair_hash |->
              Sha256Join([i \in Indices(both) |-> <<both[i].hadm_id, both[i].subject_id>>])]

\* _cohort_or_classifier_signature
CohortOrClassifierSignature(wb) ==
    IF ~wb.readable THEN [exc |-> "ReadError"]
    ELSE IF ~({"hadm_id", "subject_id"} \subseteq wb.columns) THEN [exc |-> "KeyError"]
    ELSE
      LET hadm_ids == {wb.rows[i].hadm_id : i \in Indices(wb.rows)} \ {NonNumericId}
          subject_ids == {wb.rows[i].subject_id : i \in Indices(wb.rows)} \ {NonNumericId}
          id_pairs == {<<wb.rows[i].hadm_id, wb.rows[i].subject_id>> :
                          i \in {j \in Indices(wb.rows) :
                                    /\ wb.rows[j].hadm_id # NonNumericId
                                    /\ wb.rows[j].subject_id # NonNumericId}}
      IN [exc |-> "none",
          rows |-> Len(wb.rows),
          columns |-> wb.columns,
          hadm_id_unique_count |-> Cardinality(hadm_ids),
          subject_id_unique_count |-> Cardinality(subject_ids),
          id_pair_unique_count |-> Cardinality(id_pairs),
          hadm_id_hash |-> Sha256Join(SortedInts(hadm_ids)),
          subject_id_hash |-> Sha256Join(SortedInts(subject_ids)),
          id_pair_hash |-> Sha256Join(SortedPairs(id_pairs))]

\* _analysis_file_signature: every configured export is an .xlsx workbook, so
\* the binary branch is never taken.  A sheet is [rows, cols, numeric_sum].
AnalysisFileSignature(doc) ==
    IF ~doc.readable THEN [exc |-> "ReadError"]
    ELSE [exc |-> "none", kind |-> "xlsx", sheets |-> doc.sheets]

\* _extract_metrics_from_qa: the KEY_QA_METRICS that are present and not null,
\* and pct_eq_160 of the first POC record that has one.
ExtractMetricsFromQa(qa) ==
    LET key == {KEY_QA_METRICS[i] : i \in 1..Len(KEY_QA_METRICS)} \cap DOMAIN qa.metrics
        poc == {i \in Indices(qa.first_other_pco2_audit) :
                   /\ qa.first_other_pco2_audit[i].source = "POC"
                   /\ ~IsNone(qa.first_other_pco2_audit[i].pct_eq_160)}
        first == CHOOSE i \in poc : \A j \in poc : i <= j
    IN [m \in key \cup (IF poc = {} THEN {} ELSE {FIRST_OTHER_METRIC}) |->
           IF m = FIRST_OTHER_METRIC
           THEN Get(qa.first_other_pco2_audit[first].pct_eq_160)
           ELSE qa.metrics[m]]

\* The required artifacts that do not exist, in the order of the artifact map.
MissingArtifacts(w) ==
    SelectSeq(REQUIRED_RELATIVE_ARTIFACTS, LAMBDA a : a \notin DOMAIN w.files)

\* The first exception among the analysis signatures, in export order.
AnalysisException(w) ==
    LET bad == {i \in 1..Len(ANALYSIS_EXPORT_FILENAMES) :
                   AnalysisFileSignature(w.files[ANALYSIS_EXPORT_FILENAMES[i]]).exc # "none"}
    IN IF bad = {} THEN "none" ELSE "ReadError"

\* _build_snapshot: raises on the first defect it meets, else the snapshot.
BuildSnapshot(w) ==
    IF MissingArtifacts(w) # <<>>
    THEN [exc |-> "FileNotFoundError", missing |-> MissingArtifacts(w)]
    ELSE IF ~w.files[QA_SUMMARY].valid THEN [exc |-> "JSONDecodeError"]
    ELSE IF CohortOrClassifierSignature(w.files[CANONICAL_COHORT_FILENAME]).exc # "none"
    THEN [exc |-> CohortOrClassifierSignature(w.files[CANONICAL_COHORT_FILENAME]).exc]
    ELSE IF CohortOrClassifierSignature(w.files[CANONICAL_NLP_FILENAME]).exc # "none"
    THEN [exc |-> CohortOrClassifierSignature(w.files[CANONICAL_NLP_FILENAME]).exc]
    ELSE IF AnalysisException(w) # "none" THEN [exc |-> AnalysisException(w)]
    ELSE IF ~w.files[RATER_JOIN_AUDIT].valid THEN [exc |-> "JSONDecodeError"]
    ELSE [exc |-> "none",
          artifacts |-> Required,
          metrics |-> ExtractMetricsFromQa(w.files[QA_SUMMARY]),
          cohort_signature |-> CohortOrClassifierSignature(w.files[CANONICAL_COHORT_FILENAME]),
          classifier_signature |-> CohortOrClassifierSignature(w.files[CANONICAL_NLP_FILENAME]),
          analysis_signatures |->
              [f \in AnalysisNames |-> AnalysisFileSignature(w.files[f])],
          rater_join_audit |-> w.files[RATER_JOIN_AUDIT].doc]

(***************************************************************************)
(* Parity: comparing a current snapshot with a baseline manifest.          *)
(* A finding is [severity, code, message]; the message keeps the parts of  *)
(* the text that vary.                                                     *)
(***************************************************************************)
Finding(severity, code, message) ==
    [severity |-> severity, code |-> code, message |-> message]

RECURSIVE Flatten(_)
Flatten(ss) == IF ss = <<>> THEN <<>> ELSE Head(ss) \o Flatten(Tail(ss))

Abs(x) == IF x < 0 THEN -x ELSE x

\* One pass of the loop of _metric_delta_findings: the drift row and the
\* findings of one threshold entry, nothing when either side lacks the metric.
MetricDeltaStep(t, baseline_metrics, current_metrics) ==
    IF t.metric \notin DOMAIN baseline_metrics \/ t.metric \notin DOMAIN current_metrics
    THEN [rows |-> <<>>, findings |-> <<>>]
    ELSE
      LET current == current_metrics[t.metric]
          baseline == baseline_metrics[t.metric]
          delta == current - baseline
          abs_delta == Abs(delta)
          severity == IF t.metric = "gas_source_other_rate" /\ delta < 0 THEN "ok_improved"
                      ELSE IF abs_delta > t.fail THEN "fail"
                      ELSE IF abs_delta > t.warn THEN "warning"
                      ELSE "ok"
          row == [metric |-> t.metric, baseline_value |-> baseline,
                  current_value |-> current, delta |-> delta, abs_delta |-> abs_delta,
                  warn_threshold |-> t.warn, fail_threshold |-> t.fail,
                  severity |-> severity]
      IN [rows |-> <<row>>,
          findings |->
              IF severity = "fail"
              THEN << Finding("P1", "metric_delta_fail", <<t.metric, abs_delta, t.fail>>) >>
              ELSE IF severity = "warning"
              THEN << Finding("P2", "metric_delta_warning", <<t.metric, abs_delta, t.warn>>) >>
              ELSE <<>>]

\* _metric_delta_findings: (findings, drift_rows) in threshold order.
MetricDeltaFindings(baseline_metrics, current_metrics) ==
    LET steps == [i \in 1..Len(PARITY_THRESHOLDS) |->
                     MetricDeltaStep(PARITY_THRESHOLDS[i], baseline_metrics, current_metrics)]
    IN [findings |-> Flatten([i \in 1..Len(PARITY_THRESHOLDS) |-> steps[i].findings]),
        drift_rows |-> Flatten([i \in 1..Len(PARITY_THRESHOLDS) |-> steps[i].rows])]

HASH_FIELDS == << "hadm_id_hash", "subject_id_hash", "id_pair_hash" >>

IdContractFindingsRowsOnly(baseline_signature, current_signature, label) ==
    IF baseline_signature.rows # current_signature.rows
    THEN << Finding("P1", "row_count_mismatch",
                    <<label, baseline_signature.rows, current_signature.rows>>) >>
    ELSE <<>>

\* _id_contract_findings
IdContractFindings(baseline_signature, current_signature, label) ==
    (IF baseline_signature.rows # current_signature.rows
     THEN << Finding("P1", "row_count_mismatch",
                     <<label, baseline_signature.rows, current_signature.rows>>) >>
     ELSE <<>>)
    \o Flatten([i \in 1..Len(HASH_FIELDS) |->
          IF baseline_signature[HASH_FIELDS[i]] # current_signature[HASH_FIELDS[i]]
          THEN << Finding("P0", "id_contract_mismatch", <<label, HASH_FIELDS[i]>>) >>
          ELSE <<>>])

\* The sheet names a workbook can hold, in workbook order.
SHEET_ORDER == << "Sheet1", "Sheet2" >>

\* The tolerance 1e-6 of the numeric checksum; numeric sums are counted in
\* units of 5e-7.
NUMERIC_SUM_TOLERANCE == 2

\* A float: a finite number, or the infinity that an overflowing sum gives.
Finite(v) == [finite |-> TRUE, v |-> v]

Infinite == [finite |-> FALSE, v |-> 0]

\* numeric_delta > 1e-6 and math.isfinite(numeric_delta): the difference is
\* inf or nan as soon as one of the two sums is infinite.
NumericSumDrift(curr_sum, base_sum) ==
    curr_sum.finite /\ base_sum.finite /\ Abs(curr_sum.v - base_sum.v) > NUMERIC_SUM_TOLERANCE

\* The sheet comparison that reports a changed shape at the severity of identity drift.
SheetFindingsShapeIsP0(file_name, sheet_name, base_sheet, curr_sheet) ==
    (IF <<base_sheet.rows, base_sheet.cols>> # <<curr_sheet.rows, curr_sheet.cols>>
     THEN << Finding("P0", "analysis_shape_changed", <<file_name, sheet_name>>) >>
     ELSE <<>>)
    \o (IF NumericSumDrift(curr_sheet.numeric_sum, base_sheet.numeric_sum)
        THEN << Finding("P2", "analysis_numeric_sum_drift", <<file_name, sheet_name>>) >>
        ELSE <<>>)

\* The body of the loop over the sheets of one workbook.
SheetFindings(file_name, sheet_name, base_sheet, curr_sheet) ==
    (IF <<base_sheet.rows, base_sheet.cols>> # <<curr_sheet.rows, curr_sheet.cols>>
     THEN << Finding("P2", "analysis_shape_changed", <<file_name, sheet_name>>) >>
     ELSE <<>>)
    \o (IF NumericSumDrift(curr_sheet.numeric_sum, base_sheet.numeric_sum)
        THEN << Finding("P2", "analysis_numeric_sum_drift", <<file_name, sheet_name>>) >>
        ELSE <<>>)

\* One pass of the loop of _analysis_signature_findings.
AnalysisFileFindings(file_name, baseline_analysis, current_analysis) ==
    LET baseline_present == file_name \in DOMAIN baseline_analysis
        current_present == file_name \in DOMAIN current_analysis
    IN IF ~baseline_present /\ current_present
       THEN << Finding("P2", "analysis_export_added", <<file_name>>) >>
       ELSE IF ~current_present
       THEN << Finding("P0", "analysis_export_missing", <<file_name>>) >>
       ELSE IF baseline_analysis[file_name].kind # current_analysis[file_name].kind
       THEN << Finding("P0", "analysis_kind_mismatch", <<file_name>>) >>
       ELSE
         LET base_sheets == baseline_analysis[file_name].sheets
             curr_sheets == current_analysis[file_name].sheets
         IN IF DOMAIN base_sheets # DOMAIN curr_sheets
            THEN << Finding("P0", "analysis_sheet_mismatch", <<file_name>>) >>
            ELSE Flatten([i \in 1..Len(SHEET_ORDER) |->
                    IF SHEET_ORDER[i] \in DOMAIN base_sheets
                    THEN SheetFindings(file_name, SHEET_ORDER[i],
                                       base_sheets[SHEET_ORDER[i]], curr_sheets[SHEET_ORDER[i]])
                    ELSE <<>>])

\* _analysis_signature_findings
AnalysisSignatureFindings(baseline_analysis, current_analysis) ==
    Flatten([i \in 1..Len(ANALYSIS_EXPORT_FILENAMES) |->
        AnalysisFileFindings(ANALYSIS_EXPORT_FILENAMES[i], baseline_analysis, current_analysis)])

\* dict.get("matched_rows"): None when the key is absent or null.
MatchedRows(doc) == IF "matched_rows" \in DOMAIN doc THEN doc.matched_rows ELSE None

RaterFindingsAlwaysDelta(baseline_rater, current_rater) ==
    << Finding("P2", "rater_match_count_delta",
               <<MatchedRows(baseline_rater), MatchedRows(current_rater)>>) >>

\* The rater part of compare_current_to_baseline.  int(None) raises.
RaterFindings(baseline_rater, current_rater) ==
    (IF "matched_rows" \notin DOMAIN current_rater \/ current_rater.matched_rows = Some(0)
     THEN << Finding("P0", "rater_zero_matches", <<>>) >>
     ELSE <<>>)
    \o (IF MatchedRows(baseline_rater) # MatchedRows(current_rater)
        THEN << Finding("P2", "rater_match_count_delta",
                        <<MatchedRows(baseline_rater), MatchedRows(current_rater)>>) >>
        ELSE <<>>)

ParityStatus(findings) ==
    IF CountSev(findings, "P0") > 0 \/ CountSev(findings, "P1") > 0 THEN "fail"
    ELSE IF CountSev(findings, "P2") > 0 THEN "warning"
    ELSE "pass"

ParityReport(status, findings, metric_drift, current_metrics) ==
    [exc |-> "none",
     status |-> status,
     summary |-> [p0_count |-> CountSev(findings, "P0"),
                  p1_count |-> CountSev(findings, "P1"),
                  p2_count |-> CountSev(findings, "P2"),
                  total_findings |-> Len(findings)],
     findings |-> findings,
     metric_drift |-> metric_drift,
     current_metrics |-> current_metrics]

CompareReRaisesMissing(w, manifest) ==
    IF IsNone(manifest) \/ BuildSnapshot(w).exc # "none"
    THEN [exc |-> IF IsNone(manifest) THEN "FileNotFoundError" ELSE BuildSnapshot(w).exc]
    ELSE ParityReport("pass", <<>>, <<>>, BuildSnapshot(w).metrics)

\* compare_current_to_baseline, given the manifest of the baseline directory
\* (None when the directory holds no baseline_manifest.json).
CompareCurrentToBaseline(w, manifest) ==
    IF IsNone(manifest) THEN [exc |-> "FileNotFoundError"]
    ELSE
      LET baseline_manifest == Get(manifest)
          current_snapshot == BuildSnapshot(w)
      IN IF current_snapshot.exc = "FileNotFoundError"
         THEN [exc |-> "none",
               status |-> "fail",
               summary |-> [p0_count |-> 1, p1_count |-> 0, p2_count |-> 0,
                            total_findings |-> 1],
               findings |-> << Finding("P0", "missing_artifact", current_snapshot.missing) >>,
               metric_drift |-> <<>>,
               current_metrics |-> <<>>]
         ELSE IF current_snapshot.exc # "none" THEN [exc |-> current_snapshot.exc]
         ELSE IF /\ "matched_rows" \in DOMAIN current_snapshot.rater_join_audit
                 /\ IsNone(current_snapshot.rater_join_audit.matched_rows)
         THEN [exc |-> "TypeError"]
         ELSE
           LET metric == MetricDeltaFindings(baseline_manifest.metrics,
                                             current_snapshot.metrics)
               findings ==
                   IdContractFindings(baseline_manifest.cohort_signature,
                                      current_snapshot.cohort_signature, "cohort")
                   \o IdContractFindings(baseline_manifest.classifier_signature,
                                         current_snapshot.classifier_signature, "classifier")
                   \o AnalysisSignatureFindings(baseline_manifest.analysis_signatures,
                                                current_snapshot.analysis_signatures)
                   \o RaterFindings(baseline_manifest.rater_join_audit,
                                    current_snapshot.rater_join_audit)
                   \o metric.findings
           IN ParityReport(ParityStatus(findings), findings, metric.drift_rows,
                           current_snapshot.metrics)

(***************************************************************************)
(* Parity: the working directory, the baseline store and their operations. *)
(*   wd    = [files, latest_audit, revision]: files maps each artifact     *)
(*           that exists to its content; revision counts the rewrites.     *)
(*   store = baseline directory |-> [files, debug, manifest, mtime,        *)
(*           source]; source is history: the working directory as it was   *)
(*           at the last capture into the directory that returned.         *)
(*   now   = the clock; last = the last call and what it returned/raised.  *)
(***************************************************************************)
IdColumns == {"hadm_id", "subject_id"}

Row(h, s) == [hadm_id |-> h, subject_id |-> s]

\* The fixture's two rows, its ids renamed into 1..MaxId.
CanonicalWorkbook ==
    [readable |-> TRUE, columns |-> IdColumns, rows |-> << Row(1, 1), Row(2, 2) >>]

\* The fixture's quality summary, rates in hundredths, with a LAB record put
\* before its POC record.
CanonicalQa ==
    [valid |-> TRUE,
     metrics |-> [icu_link_rate |-> 70, pct_any_gas_0_6h |-> 30,
                  pct_any_gas_0_24h |-> 90, gas_source_other_rate |-> 75],
     first_other_pco2_audit |-> << [source |-> "LAB", pct_eq_160 |-> Some(1)],
                                   [source |-> "POC", pct_eq_160 |-> Some(10)] >>]

CanonicalRater == [valid |-> TRUE, doc |-> [matched_rows |-> Some(2)]]

CanonicalSheet == [rows |-> 2, cols |-> 1, numeric_sum |-> Finite(6)]

CanonicalAnalysis == [readable |-> TRUE, sheets |-> [n \in {"Sheet1"} |-> CanonicalSheet]]

\* The artifacts of a finished pipeline run, as the tests' fixtures build them.
CanonicalFiles ==
    [a \in Required |->
        IF a \in {CANONICAL_COHORT_FILENAME, CANONICAL_NLP_FILENAME} THEN CanonicalWorkbook
        ELSE IF a = QA_SUMMARY THEN CanonicalQa
        ELSE IF a = RATER_JOIN_AUDIT THEN CanonicalRater
        ELSE IF a = RATER_SUMMARY THEN [text |-> "ok"]
        ELSE CanonicalAnalysis]

\* What a stage can write in place of a workbook.
WorkbookRewrites(wb) ==
    {[wb EXCEPT !.rows[i].hadm_id = v] : i \in Indices(wb.rows), v \in IdCells}
    \cup {[wb EXCEPT !.rows[i].subject_id = v] : i \in Indices(wb.rows), v \in IdCells}
    \cup (IF Len(wb.rows) < MaxRows
          THEN {[wb EXCEPT !.rows = Append(@, Row(h, s))] : h \in 1..MaxId, s \in 1..MaxId}
          ELSE {})
    \cup (IF Len(wb.rows) > 0
          THEN {[wb EXCEPT !.rows = SubSeq(@, 1, Len(@) - 1)],
                [wb EXCEPT !.rows = [i \in 1..Len(@) |-> @[Len(@) + 1 - i]]]}
          ELSE {})
    \cup {[wb EXCEPT !.readable = FALSE]}
    \cup {[wb EXCEPT !.columns = @ \ {c}] : c \in IdColumns}

\* What a stage can write in place of qa_summary.json.
QaRewrites(qa) ==
    {[qa EXCEPT !.valid = FALSE]}
    \cup {[qa EXCEPT !.metrics[m] = @ + d] : m \in DOMAIN qa.metrics, d \in {-5, 5, 9}}
    \cup {[qa EXCEPT !.metrics = [k \in DOMAIN qa.metrics \ {m} |-> qa.metrics[k]]] :
             m \in DOMAIN qa.metrics}
    \cup {[qa EXCEPT !.first_other_pco2_audit[i].pct_eq_160 = p] :
             i \in Indices(qa.first_other_pco2_audit), p \in {None, Some(16), Some(21)}}

\* What a stage can write in place of the rater join audit.
RaterRewrites(rater) ==
    {[rater EXCEPT !.valid = FALSE]}
    \cup {[rater EXCEPT !.doc = d] :
             d \in {<<>>} \cup {[matched_rows |-> v] : v \in {None, Some(0), Some(1), Some(2)}}}

\* What a stage can write in place of an analysis export.
AnalysisRewrites(doc) ==
    {[doc EXCEPT !.readable = FALSE]}
    \cup {[doc EXCEPT !.sheets[n].rows = @ + 1] : n \in DOMAIN doc.sheets}
    \cup {[doc EXCEPT !.sheets[n].cols = @ + 1] : n \in DOMAIN doc.sheets}
    \cup {[doc EXCEPT !.sheets[n].numeric_sum = Finite(@.v + d)] :
             n \in {x \in DOMAIN doc.sheets : doc.sheets[x].numeric_sum.finite},
             d \in {NUMERIC_SUM_TOLERANCE, NUMERIC_SUM_TOLERANCE + 1}}
    \cup {[doc EXCEPT !.sheets[n].numeric_sum = Infinite] : n \in DOMAIN doc.sheets}
    \cup {[doc EXCEPT !.sheets = [n \in {"Sheet2"} |-> CanonicalSheet]]}

Rewrites(a, old) ==
    (IF a \in {CANONICAL_COHORT_FILENAME, CANONICAL_NLP_FILENAME} THEN WorkbookRewrites(old)
     ELSE IF a = QA_SUMMARY THEN QaRewrites(old)
     ELSE IF a = RATER_JOIN_AUDIT THEN RaterRewrites(old)
     ELSE IF a = RATER_SUMMARY THEN {}
     ELSE AnalysisRewrites(old)) \ {old}

\* A stage rewrites one artifact (creating it when it does not exist).
RewriteArtifact(a, content) ==
    /\ wd.revision < MaxEdits
    /\ wd' = [wd EXCEPT !.files = (a :> content) @@ @, !.revision = @ + 1]
    /\ last' = [op |-> "rewrite", dir |-> None, out |-> [exc |-> "none"]]
    /\ UNCHANGED <<store, now>>

\* What can go missing together: one artifact, or all the outputs of the
\* rater stage or of the analysis stage.
RemovableSets ==
    {{a} : a \in Required} \cup {{RATER_JOIN_AUDIT, RATER_SUMMARY}, AnalysisNames}

\* Artifacts are deleted, or a stage ends before producing them.
RemoveArtifacts(S) ==
    /\ wd.revision < MaxEdits
    /\ S \subseteq DOMAIN wd.files
    /\ wd' = [wd EXCEPT !.files = [x \in DOMAIN @ \ S |-> @[x]], !.revision = @ + 1]
    /\ last' = [op |-> "remove", dir |-> None, out |-> [exc |-> "none"]]
    /\ UNCHANGED <<store, now>>

\* run_pipeline_audit leaves debug/pipeline_audit/<run>/audit_report.json.
WriteAuditReport ==
    /\ wd.revision < MaxEdits
    /\ ~wd.latest_audit
    /\ wd' = [wd EXCEPT !.latest_audit = TRUE, !.revision = @ + 1]
    /\ last' = [op |-> "audit_report", dir |-> None, out |-> [exc |-> "none"]]
    /\ UNCHANGED <<store, now>>

\* _timestamp_id: the clock reading formatted to the second.
TIMESTAMP_IDS == << "20260101_000001", "20260101_000002", "20260101_000003", "20260101_000004" >>

TimestampId(t) == TIMESTAMP_IDS[t]

\* _safe_label: runs of characters outside [0-9A-Za-z._-] become "-".
SafeLabel(label) ==
    IF IsNone(label) \/ label = Some("") THEN ""
    ELSE IF Get(label) \in {"rc 1", "rc-1"} THEN "_rc-1"
    ELSE "_other"

BaselineIds == {None, Some("old"), Some("new")}

Labels == {None, Some("rc 1"), Some("rc-1")}

BaselineDir(baseline_id, label, t) ==
    [name |-> IF IsNone(baseline_id) THEN TimestampId(t) ELSE Get(baseline_id),
     suffix |-> SafeLabel(label)]

\* The entries directly under a baseline directory that hold one artifact.
TopLevelArtifacts == {QA_SUMMARY} \cup AnalysisNames

AUDIT_COPY == "debug/pipeline_audit/latest_audit_report.json"

EmptyEntry ==
    [files |-> <<>>, debug |-> FALSE, manifest |-> None, mtime |-> 0,
     source |-> None]

\* capture_jupyter_baseline(work_dir, baseline_id=..., label=...)
Capture(baseline_id, label) ==
    /\ now < MaxClock
    /\ now' = now + 1
    /\ LET dir == BaselineDir(baseline_id, label, now')
           fresh == dir \notin DOMAIN store
           old == IF fresh THEN EmptyEntry ELSE store[dir]
           copied_files ==
               SelectSeq(REQUIRED_RELATIVE_ARTIFACTS, LAMBDA a : a \in DOMAIN wd.files)
               \o (IF wd.latest_audit THEN <<AUDIT_COPY>> ELSE <<>>)
           missing_files == MissingArtifacts(wd)
           snapshot == BuildSnapshot(wd)
           manifest ==
               [baseline_id |-> dir.name,
                label |-> label,
                captured_utc |-> now',
                copied_files |-> copied_files,
                missing_files |-> missing_files,
                artifacts |-> snapshot.artifacts,
                metrics |-> snapshot.metrics,
                cohort_signature |-> snapshot.cohort_signature,
                classifier_signature |-> snapshot.classifier_signature,
                analysis_signatures |-> snapshot.analysis_signatures,
                rater_join_audit |-> snapshot.rater_join_audit]
           written == snapshot.exc = "none"
           \* a directory's mtime moves when an entry is created directly in it
           new_child ==
               \/ fresh
               \/ (TopLevelArtifacts \cap DOMAIN wd.files) \ DOMAIN old.files # {}
               \/ wd.latest_audit /\ ~old.debug
               \/ written /\ IsNone(old.manifest)
       IN /\ store' =
                (dir :> [files |-> wd.files @@ old.files,
                         debug |-> old.debug \/ wd.latest_audit,
                         manifest |-> IF written THEN Some(manifest) ELSE old.manifest,
                         mtime |-> IF new_child THEN now' ELSE old.mtime,
                         source |-> IF written THEN Some(wd) ELSE old.source])
                @@ store
          /\ last' =
                [op |-> "capture",
                 dir |-> Some(dir),
                 out |-> IF written
                         THEN [exc |-> "none",
                               baseline_id |-> dir.name,
                               copied_files |-> copied_files,
                               missing_files |-> missing_files]
                         ELSE [exc |-> snapshot.exc]]
    /\ UNCHANGED wd

\* compare_current_to_baseline(work_dir, baseline_dir=dir) on an existing
\* baseline directory.
Compare(dir) ==
    /\ dir \in DOMAIN store
    /\ last' = [op |-> "compare", dir |-> Some(dir),
                out |-> CompareCurrentToBaseline(wd, store[dir].manifest)]
    /\ UNCHANGED <<wd, store, now>>

ParityInit ==
    /\ wd = [files |-> CanonicalFiles, latest_audit |-> FALSE, revision |-> 0]
    /\ store = <<>>
    /\ now = 0
    /\ last = [op |-> "init", dir |-> None, out |-> [exc |-> "none"]]
    /\ RunnerIdle /\ AuditIdle /\ ContractIdle /\ CliIdle

\* One baseline id, every rewrite of every artifact.
ParityNext ==
    \/ \E a \in Required :
          \E content \in Rewrites(a, IF a \in DOMAIN wd.files THEN wd.files[a]
                                     ELSE CanonicalFiles[a]) \cup
                         (IF a \in DOMAIN wd.files THEN {} ELSE {CanonicalFiles[a]}) :
             RewriteArtifact(a, content) /\ UNCHANGED <<runnerVars, auditVars, contractVars, cliVars>>
    \/ \E S \in RemovableSets :
          RemoveArtifacts(S) /\ UNCHANGED <<runnerVars, auditVars, contractVars, cliVars>>
    \/ WriteAuditReport /\ UNCHANGED <<runnerVars, auditVars, contractVars, cliVars>>
    \/ Capture(Some("old"), None) /\ UNCHANGED <<runnerVars, auditVars, contractVars, cliVars>>
    \/ \E dir \in DOMAIN store :
          Compare(dir) /\ UNCHANGED <<runnerVars, auditVars, contractVars, cliVars>>

SpecParity == ParityInit /\ [][ParityNext]_vars

\* Every baseline id and label, the rater join audit rewritten or artifacts
\* removed between captures.
StoreNext ==
    \/ \E content \in Rewrites(RATER_JOIN_AUDIT, CanonicalRater) :
          RewriteArtifact(RATER_JOIN_AUDIT, content)
          /\ UNCHANGED <<runnerVars, auditVars, contractVars, cliVars>>
    \/ \E S \in {{QA_SUMMARY}, {RATER_JOIN_AUDIT, RATER_SUMMARY}} :
          RemoveArtifacts(S) /\ UNCHANGED <<runnerVars, auditVars, contractVars, cliVars>>
    \/ WriteAuditReport /\ UNCHANGED <<runnerVars, auditVars, contractVars, cliVars>>
    \/ \E baseline_id \in BaselineIds, label \in Labels :
          Capture(baseline_id, label)
          /\ UNCHANGED <<runnerVars, auditVars, contractVars, cliVars>>
    \/ \E dir \in DOMAIN store :
          Compare(dir) /\ UNCHANGED <<runnerVars, auditVars, contractVars, cliVars>>

SpecStore == ParityInit /\ [][StoreNext]_vars

(***************************************************************************)
(* Claims about capture and compare.                                       *)
(***************************************************************************)
\* The last call was a compare that returned a report.
CompareReturned == last.op = "compare" /\ last.out.exc = "none"

\* The last call compared the working directory with a snapshot captured
\* from it, with no change in between.
SelfCompare ==
    /\ last.op = "compare"
    /\ store[Get(last.dir)].source = Some(wd)

(* C2 as stated: a capture that succeeds followed by a compare against that
   snapshot, with no change to the working directory in between, returns
   status pass with an empty findings list. *)
C2_SelfComparePasses ==
    SelfCompare =>
        /\ last.out.exc = "none"
        /\ last.out.status = "pass"
        /\ last.out.findings = <<>>

\* The rater join audit of the working directory reports a non-zero integer.
RaterMatchesNonZero ==
    /\ RATER_JOIN_AUDIT \in DOMAIN wd.files
    /\ "matched_rows" \in DOMAIN wd.files[RATER_JOIN_AUDIT].doc
    /\ wd.files[RATER_JOIN_AUDIT].doc.matched_rows \notin {None, Some(0)}

(* C2 amended: a capture that succeeds followed by a compare against that
   snapshot, with no change in between, returns status pass with an empty
   findings list and an all-ok drift table whenever the rater join audit of
   the working directory reports a non-zero integer matched_rows. *)
C2_SelfComparePassesWithMatches ==
    (SelfCompare /\ RaterMatchesNonZero) =>
        /\ last.out.exc = "none"
        /\ last.out.status = "pass"
        /\ last.out.findings = <<>>
        /\ \A i \in Indices(last.out.metric_drift) :
              last.out.metric_drift[i].severity = "ok"

C2_Witness ==
    /\ SelfCompare /\ RaterMatchesNonZero
    /\ wd.revision > 0
    /\ wd.files[CANONICAL_COHORT_FILENAME] # CanonicalWorkbook
    /\ last.out.status = "pass"

\* The id values a column of a table holds; a cell that is not a number is
\* no id value.
ValueSet(rows, column) == {rows[i][column] : i \in Indices(rows)} \ {NonNumericId}

\* The last compare returned a report built from a snapshot of the working
\* directory, against a baseline whose table wb has as many rows as the
\* current one and another hadm_id or subject_id value set.
SameRowsOtherIds(wb) ==
    /\ CompareReturned
    /\ MissingArtifacts(wd) = <<>>
    /\ LET baseline_rows == Get(store[Get(last.dir)].source).files[wb].rows
           current_rows == wd.files[wb].rows
       IN /\ Len(baseline_rows) = Len(current_rows)
          /\ \E column \in IdColumns :
                ValueSet(baseline_rows, column) # ValueSet(current_rows, column)

HasIdMismatch(label) ==
    \E i \in Indices(last.out.findings) :
        /\ last.out.findings[i].severity = "P0"
        /\ last.out.findings[i].code = "id_contract_mismatch"
        /\ last.out.findings[i].message[1] = label

(* C3: when a compare reports on a current cohort or classifier table that
   has the baseline's row count but another hadm_id or subject_id value
   set, the report holds a P0 id_contract_mismatch finding for that table
   and its status is fail. *)
C3_SameRowCountOtherIdsFails ==
    /\ SameRowsOtherIds(CANONICAL_COHORT_FILENAME) =>
          (HasIdMismatch("cohort") /\ last.out.status = "fail")
    /\ SameRowsOtherIds(CANONICAL_NLP_FILENAME) =>
          (HasIdMismatch("classifier") /\ last.out.status = "fail")

C3_Witness ==
    /\ SameRowsOtherIds(CANONICAL_COHORT_FILENAME)
    /\ ~SameRowsOtherIds(CANONICAL_NLP_FILENAME)
    /\ HasIdMismatch("cohort")
    /\ \A i \in Indices(last.out.findings) :
          last.out.findings[i].code = "id_contract_mismatch"

(* C4 as stated: a capture leaves the manifest and the copied artifacts of
   every snapshot directory that already holds a manifest as they were. *)
C4_CaptureNeverOverwrites ==
    [][\A dir \in DOMAIN store :
          ~IsNone(store[dir].manifest) =>
              /\ store'[dir].manifest = store[dir].manifest
              /\ store'[dir].files = store[dir].files]_vars

(* C5 as stated: a capture from a working directory that lacks required
   artifacts returns, its missing_files are the absent artifacts, its
   copied_files the present ones, and the manifest of that capture is in
   the snapshot directory. *)
C5_CaptureToleratesMissing ==
    (last.op = "capture" /\ MissingArtifacts(wd) # <<>>) =>
        /\ last.out.exc = "none"
        /\ last.out.missing_files = MissingArtifacts(wd)
        /\ \A i \in Indices(last.out.copied_files) :
              last.out.copied_files[i] \in DOMAIN wd.files \cup {AUDIT_COPY}
        /\ ~IsNone(store[Get(last.dir)].manifest)
        /\ Get(store[Get(last.dir)].manifest).captured_utc = now

\* The last call compared a working directory that lacks required artifacts
\* with a baseline directory that holds a manifest.
CompareWithMissing ==
    /\ last.op = "compare"
    /\ MissingArtifacts(wd) # <<>>
    /\ ~IsNone(store[Get(last.dir)].manifest)

(* C6: a compare of a working directory that lacks required artifacts with
   a baseline snapshot returns; the report has status fail, exactly one
   finding, P0 missing_artifact naming the absent artifacts, however many
   are absent, and an empty metric_drift. *)
C6_CompareMissingIsOneP0 ==
    CompareWithMissing =>
        /\ last.out.exc = "none"
        /\ last.out.status = "fail"
        /\ Len(last.out.findings) = 1
        /\ last.out.findings[1].severity = "P0"
        /\ last.out.findings[1].code = "missing_artifact"
        /\ last.out.findings[1].message = MissingArtifacts(wd)
        /\ last.out.metric_drift = <<>>
        /\ last.out.summary = [p0_count |-> 1, p1_count |-> 0, p2_count |-> 0,
                               total_findings |-> 1]

C6_Witness ==
    /\ CompareWithMissing
    /\ Len(MissingArtifacts(wd)) > 1
    /\ last.out.exc = "none"
    /\ Len(last.out.findings) = 1

\* The working directory holds every required artifact and one of them has a
\* recoverable defect: malformed JSON in qa_summary.json or the rater join
\* audit, an unreadable workbook, or a workbook lacking an ID column.
RecoverableDefect(w) ==
    /\ MissingArtifacts(w) = <<>>
    /\ \/ ~w.files[QA_SUMMARY].valid
       \/ ~w.files[RATER_JOIN_AUDIT].valid
       \/ \E a \in {CANONICAL_COHORT_FILENAME, CANONICAL_NLP_FILENAME} :
             \/ ~w.files[a].readable
             \/ ~(IdColumns \subseteq w.files[a].columns)

(* C8 for compare_current_to_baseline: a compare of a working directory with
   a recoverable defect against a baseline snapshot does not raise; it returns
   a report that holds at least one finding. *)
C8_CompareNeverRaisesOnDefect ==
    (/\ last.op = "compare"
     /\ ~IsNone(store[Get(last.dir)].manifest)
     /\ RecoverableDefect(wd))
        => /\ last.out.exc = "none"
           /\ last.out.findings # <<>>

(***************************************************************************)
(* Audit: load_and_validate_artifacts.                                     *)
(* The validator's view of the working directory is                        *)
(*   [artifacts, qa, rater, cohort, classifier]:                           *)
(* artifacts maps each artifact name to [exists, fresh, size_bytes]; qa is *)
(* [valid, keys, metrics, ...] with keys the top-level keys other than the *)
(* metrics; rater is [valid, doc]; a workbook is                           *)
(* [readable, columns, rows, inf_count].  An audit finding is              *)
(* [severity, category, code, message].                                    *)
(***************************************************************************)
ARTIFACT_NAMES ==
    <<"cohort_workbook", "classifier_workbook", "qa_summary", "rater_join_audit",
      "rater_summary", "analysis_export_1", "analysis_export_2",
      "analysis_export_3", "analysis_export_4">>

ArtifactNames == {ARTIFACT_NAMES[i] : i \in 1..Len(ARTIFACT_NAMES)}

AuditFinding(severity, category, code, message) ==
    [severity |-> severity, category |-> category, code |-> code, message |-> message]

\* _artifact_status: a path that does not exist is neither fresh nor sized.
ArtifactStatus(a) ==
    IF ~a.exists THEN [exists |-> FALSE, fresh |-> FALSE, size_bytes |-> 0]
    ELSE [exists |-> TRUE, fresh |-> a.fresh, size_bytes |-> a.size_bytes]

\* A validator that treats a missing artifact like a stale one.
ArtifactCheckFindingsSoftMissing(name, status) ==
    IF ~status.exists \/ ~status.fresh
    THEN << AuditFinding("P1", "artifact", "stale_artifact", <<name>>) >>
    ELSE <<>>

\* The loop over artifact_checks: a missing artifact is reported and skipped,
\* an existing one may be both stale and empty.
ArtifactCheckFindings(name, status) ==
    IF ~status.exists
    THEN << AuditFinding("P0", "artifact", "missing_artifact", <<name>>) >>
    ELSE (IF ~status.fresh
          THEN << AuditFinding("P1", "artifact", "stale_artifact", <<name>>) >>
          ELSE <<>>)
         \o (IF status.size_bytes <= 0
             THEN << AuditFinding("P1", "artifact", "empty_artifact", <<name>>) >>
             ELSE <<>>)

\* DataFrame.empty: no rows or no columns.  A workbook that was not read
\* leaves the empty default frame.
FrameEmpty(exists, wb) ==
    ~exists \/ ~wb.readable \/ wb.rows = <<>> \/ wb.columns = {}

\* _check_numeric_infinity.
CheckNumericInfinity(wb, frame_name) ==
    IF wb.inf_count > 0
    THEN << AuditFinding("P0", "numeric", "infinite_values_detected",
                         <<frame_name, wb.inf_count>>) >>
    ELSE <<>>

REQUIRED_COHORT_COLUMNS ==
    {"hadm_id", "subject_id", "ed_stay_id", "anthro_timing_tier",
     "anthro_days_offset", "anthro_chartdate", "anthro_timing_uncertain"}

REQUIRED_CLASSIFIER_COLUMNS ==
    {"hadm_id", "subject_id", "RFV1", "RFV2", "RFV3", "RFV4", "RFV5"}

\* The schema block of one workbook: skipped for an empty frame.
SchemaFindings(exists, wb, required, code, frame_name) ==
    IF FrameEmpty(exists, wb) THEN <<>>
    ELSE (IF required \ wb.columns # {}
          THEN << AuditFinding("P0", "schema", code, <<required \ wb.columns>>) >>
          ELSE <<>>)
         \o CheckNumericInfinity(wb, frame_name)

\* _find_first_other_pco2_pct_eq_160 of the audit module: the value of the
\* first POC record, None when that record has none.
FindFirstOtherPco2PctEq160(qa) ==
    IF "first_other_pco2_audit" \notin qa.keys THEN None
    ELSE LET poc == {i \in Indices(qa.first_other_pco2_audit) :
                        qa.first_other_pco2_audit[i].source = "POC"}
         IN IF poc = {} THEN None
            ELSE qa.first_other_pco2_audit[CHOOSE i \in poc : \A j \in poc : i <= j].pct_eq_160

\* Truth value of a parsed qa_summary: a dict with at least one key.
QaTruthy(qa_summary) ==
    /\ ~IsNone(qa_summary)
    /\ Get(qa_summary).keys # {} \/ DOMAIN Get(qa_summary).metrics # {}

VitalsRowFindings(row) ==
    IF IsNone(row.out_of_range_pct)
    THEN << AuditFinding("P1", "quality", "missing_vitals_outlier_pct", <<>>) >>
    ELSE IF Get(row.out_of_range_pct) < 0
    THEN << AuditFinding("P1", "quality", "invalid_vitals_outlier_pct", <<>>) >>
    ELSE <<>>

\* The quality block, run for a non-empty qa_summary.
QaQualityFindings(qa) ==
    (IF "gas_source_audit" \in qa.keys /\ qa.gas_source_audit.all_other_or_unknown
     THEN << AuditFinding("P0", "quality", "all_other_or_unknown_gas_source", <<>>) >>
     ELSE <<>>)
    \o (IF "uom_expectation_checks" \in qa.keys
        THEN Flatten([i \in 1..Len(qa.paco2_uom_checks) |->
                 IF qa.paco2_uom_checks[i].present /\ ~qa.paco2_uom_checks[i].passes
                 THEN << AuditFinding("P0", "quality", "uom_paco2_failure",
                                      <<qa.paco2_uom_checks[i].uom_field>>) >>
                 ELSE <<>>])
        ELSE <<>>)
    \o (IF /\ "omr_diagnostics" \in qa.keys
           /\ qa.omr.pre_rows + qa.omr.post_rows > 0
           /\ qa.omr.attached_total = 0
        THEN << AuditFinding("P0", "quality", "omr_attach_inconsistency", <<>>) >>
        ELSE <<>>)
    \o (IF "vitals_outlier_audit" \in qa.keys
        THEN Flatten([i \in 1..Len(qa.vitals_outlier_audit) |->
                         VitalsRowFindings(qa.vitals_outlier_audit[i])])
        ELSE << AuditFinding("P1", "quality", "missing_vitals_outlier_audit", <<>>) >>)
    \o (IF IsNone(FindFirstOtherPco2PctEq160(qa))
        THEN << AuditFinding("P1", "quality", "missing_first_other_pco2_audit", <<>>) >>
        ELSE <<>>)

\* int(rater_join_audit.get("matched_rows", 0) or 0) == 0
RaterMatchedZero(doc) ==
    \/ "matched_rows" \notin DOMAIN doc
    \/ IsNone(doc.matched_rows)
    \/ Get(doc.matched_rows) = 0

\* load_and_validate_artifacts: the findings in the order the code appends
\* them, the parsed documents and the current metrics.
LoadAndValidateArtifacts(w) ==
    LET artifact_checks == [n \in ArtifactNames |-> ArtifactStatus(w.artifacts[n])]
        qa_exists == artifact_checks["qa_summary"].exists
        rater_exists == artifact_checks["rater_join_audit"].exists
        cohort_exists == artifact_checks["cohort_workbook"].exists
        classifier_exists == artifact_checks["classifier_workbook"].exists
        qa_summary == IF qa_exists /\ w.qa.valid THEN Some(w.qa) ELSE None
        rater_join_audit == IF rater_exists /\ w.rater.valid THEN Some(w.rater.doc) ELSE None
        cohort_empty == FrameEmpty(cohort_exists, w.cohort)
        classifier_empty == FrameEmpty(classifier_exists, w.classifier)
        first_other == IF QaTruthy(qa_summary) THEN FindFirstOtherPco2PctEq160(w.qa)
                       ELSE None
        metric_names ==
            (IF cohort_empty THEN {} ELSE {"cohort_rows"})
            \cup (IF classifier_empty THEN {} ELSE {"classifier_rows"})
            \cup (IF QaTruthy(qa_summary)
                  THEN ({KEY_QA_METRICS[i] : i \in 1..Len(KEY_QA_METRICS)}
                            \cap DOMAIN w.qa.metrics)
                       \cup (IF IsNone(first_other) THEN {} ELSE {FIRST_OTHER_METRIC})
                  ELSE {})
        findings ==
            Flatten([i \in 1..Len(ARTIFACT_NAMES) |->
                        ArtifactCheckFindings(ARTIFACT_NAMES[i],
                                              artifact_checks[ARTIFACT_NAMES[i]])])
            \o (IF qa_exists /\ ~w.qa.valid
                THEN << AuditFinding("P0", "artifact", "invalid_qa_summary_json", <<>>) >>
                ELSE <<>>)
            \o (IF rater_exists /\ ~w.rater.valid
                THEN << AuditFinding("P0", "artifact", "invalid_rater_join_json", <<>>) >>
                ELSE <<>>)
            \o (IF cohort_exists /\ ~w.cohort.readable
                THEN << AuditFinding("P0", "artifact", "cohort_read_failure", <<>>) >>
                ELSE <<>>)
            \o (IF classifier_exists /\ ~w.classifier.readable
                THEN << AuditFinding("P0", "artifact", "classifier_read_failure", <<>>) >>
                ELSE <<>>)
            \o SchemaFindings(cohort_exists, w.cohort, REQUIRED_COHORT_COLUMNS,
                              "cohort_missing_columns", "cohort workbook")
            \o SchemaFindings(classifier_exists, w.classifier, REQUIRED_CLASSIFIER_COLUMNS,
                              "classifier_missing_columns", "classifier workbook")
            \o (IF QaTruthy(qa_summary) THEN QaQualityFindings(w.qa) ELSE <<>>)
            \o (IF /\ ~IsNone(rater_join_audit)
                   /\ DOMAIN Get(rater_join_audit) # {}
                   /\ RaterMatchedZero(Get(rater_join_audit))
                THEN << AuditFinding("P0", "quality", "rater_zero_matches", <<>>) >>
                ELSE <<>>)
    IN [artifact_checks |-> artifact_checks,
        qa_summary |-> qa_summary,
        rater_join_audit |-> rater_join_audit,
        current_metrics |->
            [m \in metric_names |->
                IF m = "cohort_rows" THEN Len(w.cohort.rows)
                ELSE IF m = "classifier_rows" THEN Len(w.classifier.rows)
                ELSE IF m = FIRST_OTHER_METRIC THEN Get(first_other)
                ELSE w.qa.metrics[m]],
        findings |-> findings]

\* A status policy under which only a P0 finding fails the run.
AuditStatusP0Only(strictness, findings) ==
    IF strictness = "fail_on_key_anomalies" /\ CountSev(findings, "P0") > 0
    THEN "fail"
    ELSE IF CountSev(findings, "P2") > 0 THEN "warning"
    ELSE "pass"

\* build_audit_report, the status policy: under fail_on_key_anomalies any P0
\* or P1 finding fails the run; otherwise a P2 finding makes it a warning.
AuditStatus(strictness, findings) ==
    IF strictness = "fail_on_key_anomalies"
       /\ (CountSev(findings, "P0") > 0 \/ CountSev(findings, "P1") > 0)
    THEN "fail"
    ELSE IF CountSev(findings, "P2") > 0 THEN "warning"
    ELSE "pass"

\* A report builder that takes a skipped stage for a failed one.
BuildAuditReportCountsSkipped(stages, preflight_findings, artifact_result, drift_rows, log_findings, strictness) ==
    LET stage_findings ==
            Flatten([i \in 1..Len(stages) |->
                IF stages[i].returncode # Some(0)
                THEN << AuditFinding("P0", "pipeline", "stage_failed",
                                     <<stages[i].stage_id, stages[i].returncode>>) >>
                ELSE <<>>])
        drift_findings ==
            Flatten([i \in 1..Len(drift_rows) |->
                IF drift_rows[i].severity = "fail"
                THEN << AuditFinding("P1", "drift", "metric_drift_fail",
                                     <<drift_rows[i].metric, drift_rows[i].abs_delta>>) >>
                ELSE IF drift_rows[i].severity = "warning"
                THEN << AuditFinding("P2", "drift", "metric_drift_warning",
                                     <<drift_rows[i].metric, drift_rows[i].abs_delta>>) >>
                ELSE <<>>])
        findings == preflight_findings \o artifact_result.findings \o stage_findings
                    \o drift_findings \o log_findings
    IN [strictness |-> strictness,
        status |-> AuditStatus(strictness, findings),
        summary |-> [p0_count |-> CountSev(findings, "P0"),
                     p1_count |-> CountSev(findings, "P1"),
                     p2_count |-> CountSev(findings, "P2"),
                     total_findings |-> Len(findings)],
        pipeline_run |-> stages,
        artifact_checks |-> artifact_result.artifact_checks,
        current_metrics |-> artifact_result.current_metrics,
        metric_drift |-> drift_rows,
        findings |-> findings]

\* A report builder that has a finding for the fail rows of the drift only.
BuildAuditReportFailRowsOnly(stages, preflight_findings, artifact_result, drift_rows, log_findings, strictness) ==
    LET stage_findings ==
            Flatten([i \in 1..Len(stages) |->
                IF ~IsNone(stages[i].returncode) /\ Get(stages[i].returncode) # 0
                THEN << AuditFinding("P0", "pipeline", "stage_failed",
                                     <<stages[i].stage_id, Get(stages[i].returncode)>>) >>
                ELSE <<>>])
        drift_findings ==
            Flatten([i \in 1..Len(drift_rows) |->
                IF drift_rows[i].severity = "fail"
                THEN << AuditFinding("P1", "drift", "metric_drift_fail",
                                     <<drift_rows[i].metric, drift_rows[i].abs_delta>>) >>
                ELSE <<>>])
        findings == preflight_findings \o artifact_result.findings \o stage_findings
                    \o drift_findings \o log_findings
    IN [strictness |-> strictness,
        status |-> AuditStatus(strictness, findings),
        summary |-> [p0_count |-> CountSev(findings, "P0"),
                     p1_count |-> CountSev(findings, "P1"),
                     p2_count |-> CountSev(findings, "P2"),
                     total_findings |-> Len(findings)],
        pipeline_run |-> stages,
        artifact_checks |-> artifact_result.artifact_checks,
        current_metrics |-> artifact_result.current_metrics,
        metric_drift |-> drift_rows,
        findings |-> findings]

\* A report builder that puts the log findings before all others.
BuildAuditReportLogFirst(stages, preflight_findings, artifact_result, drift_rows, log_findings, strictness) ==
    LET stage_findings ==
            Flatten([i \in 1..Len(stages) |->
                IF ~IsNone(stages[i].returncode) /\ Get(stages[i].returncode) # 0
                THEN << AuditFinding("P0", "pipeline", "stage_failed",
                                     <<stages[i].stage_id, Get(stages[i].returncode)>>) >>
                ELSE <<>>])
        drift_findings ==
            Flatten([i \in 1..Len(drift_rows) |->
                IF drift_rows[i].severity = "fail"
                THEN << AuditFinding("P1", "drift", "metric_drift_fail",
                                     <<drift_rows[i].metric, drift_rows[i].abs_delta>>) >>
                ELSE IF drift_rows[i].severity = "warning"
                THEN << AuditFinding("P2", "drift", "metric_drift_warning",
                                     <<drift_rows[i].metric, drift_rows[i].abs_delta>>) >>
                ELSE <<>>])
        findings == log_findings \o preflight_findings \o artifact_result.findings
                    \o stage_findings \o drift_findings
    IN [strictness |-> strictness,
        status |-> AuditStatus(strictness, findings),
        summary |-> [p0_count |-> CountSev(findings, "P0"),
                     p1_count |-> CountSev(findings, "P1"),
                     p2_count |-> CountSev(findings, "P2"),
                     total_findings |-> Len(findings)],
        pipeline_run |-> stages,
        artifact_checks |-> artifact_result.artifact_checks,
        current_metrics |-> artifact_result.current_metrics,
        metric_drift |-> drift_rows,
        findings |-> findings]

\* build_audit_report: preflight findings, artifact findings, one P0 per
\* stage whose return code is not zero, one finding per drift row beyond a
\* threshold, then the log findings; the status follows from the counts.
BuildAuditReport(stages, preflight_findings, artifact_result, drift_rows, log_findings, strictness) ==
    LET stage_findings ==
            Flatten([i \in 1..Len(stages) |->
                IF ~IsNone(stages[i].returncode) /\ Get(stages[i].returncode) # 0
                THEN << AuditFinding("P0", "pipeline", "stage_failed",
                                     <<stages[i].stage_id, Get(stages[i].returncode)>>) >>
                ELSE <<>>])
        drift_findings ==
            Flatten([i \in 1..Len(drift_rows) |->
                IF drift_rows[i].severity = "fail"
                THEN << AuditFinding("P1", "drift", "metric_drift_fail",
                                     <<drift_rows[i].metric, drift_rows[i].abs_delta>>) >>
                ELSE IF drift_rows[i].severity = "warning"
                THEN << AuditFinding("P2", "drift", "metric_drift_warning",
                                     <<drift_rows[i].metric, drift_rows[i].abs_delta>>) >>
                ELSE <<>>])
        findings == preflight_findings \o artifact_result.findings \o stage_findings
                    \o drift_findings \o log_findings
    IN [strictness |-> strictness,
        status |-> AuditStatus(strictness, findings),
        summary |-> [p0_count |-> CountSev(findings, "P0"),
                     p1_count |-> CountSev(findings, "P1"),
                     p2_count |-> CountSev(findings, "P2"),
                     total_findings |-> Len(findings)],
        pipeline_run |-> stages,
        artifact_checks |-> artifact_result.artifact_checks,
        current_metrics |-> artifact_result.current_metrics,
        metric_drift |-> drift_rows,
        findings |-> findings]

(***************************************************************************)
(* Contracts: validate_cohort_contract, validate_classifier_contract and   *)
(* build_pipeline_contract_report_for_stages.                              *)
(* A frame is [readable, columns, rows, inf_count]; a cell of a row counts *)
(* only when its column is among the frame's columns.  The frames range    *)
(* over the columns named below, so the rules of the validators that need  *)
(* any other column never apply.  A contract finding is                    *)
(* [severity, code, message].                                              *)
(***************************************************************************)
COHORT_REQUIRED_AUDIT_SUFFIXES ==
    <<"blood_gas_itemid_manifest_audit.csv", "pco2_itemid_qc_audit.csv",
      "hco3_itemid_qc_audit.csv", "pco2_source_distribution_audit.csv",
      "pco2_window_max_contributor_audit.csv",
      "blood_gas_triplet_completeness_audit.csv",
      "qualifying_pco2_distribution_by_type_audit.csv",
      "other_route_quarantine_audit.csv", "first_gas_anchor_audit.csv",
      "hco3_integrity_audit.csv", "hco3_coverage_audit.csv",
      "timing_integrity_audit.csv", "ventilation_timing_audit.csv",
      "anthropometric_cleaning_audit.csv">>

AuditSuffixes == {COHORT_REQUIRED_AUDIT_SUFFIXES[i] : i \in 1..Len(COHORT_REQUIRED_AUDIT_SUFFIXES)}

\* _status_from_findings
StatusFromFindings(findings) ==
    IF \E i \in 1..Len(findings) : findings[i].severity = "error" THEN "fail"
    ELSE IF \E i \in 1..Len(findings) : findings[i].severity = "warning" THEN "warning"
    ELSE "pass"

\* int(df.duplicated(subset=[column]).sum()): the rows beyond the first of
\* each value.
DuplicatedCount(rows, column) ==
    Len(rows) - Cardinality({rows[i][column] : i \in 1..Len(rows)})

ThresholdFlagColumns ==
    {"abg_hypercap_threshold", "vbg_hypercap_threshold", "unknown_hypercap_threshold"}

SourceDiagColumns ==
    {"gas_source_inference_primary_tier", "gas_source_hint_conflict_rate",
     "gas_source_resolved_rate"}

IntegrityFlagColumns ==
    {"time_integrity_any", "hospital_los_negative_flag",
     "admittime_before_ed_intime_flag", "dischtime_before_admittime_flag"}

\* abg | vbg | unknown on 0/1 flags
Or3(a, b, c) == IF a = 1 \/ b = 1 \/ c = 1 THEN 1 ELSE 0

\* A threshold-union rule that leaves the unknown-source flag out of the OR.
ThresholdUnionFindingsAbgVbgOnly(df) ==
    LET union_col == IF "pco2_threshold_0_24h" \in df.columns THEN Some("pco2_threshold_0_24h")
                     ELSE IF "pco2_threshold_any" \in df.columns THEN Some("pco2_threshold_any")
                     ELSE None
        mismatch == Cardinality({i \in 1..Len(df.rows) :
                        Or3(df.rows[i].abg_hypercap_threshold,
                            df.rows[i].vbg_hypercap_threshold, 0)
                        # df.rows[i][Get(union_col)]})
    IN (IF union_col = Some("pco2_threshold_any")
        THEN << Finding("warning", "pco2_threshold_any_deprecated_alias", <<>>) >>
        ELSE <<>>)
       \o (IF ~(ThresholdFlagColumns \subseteq df.columns) THEN <<>>
           ELSE IF IsNone(union_col)
           THEN << Finding("error", "pco2_threshold_0_24h_missing", <<>>) >>
           ELSE IF mismatch > 0
           THEN << Finding("error",
                           IF union_col = Some("pco2_threshold_0_24h")
                           THEN "pco2_threshold_0_24h_mismatch"
                           ELSE "pco2_threshold_any_mismatch",
                           <<mismatch>>) >>
           ELSE <<>>)

\* The threshold-union rule of validate_cohort_contract.
ThresholdUnionFindings(df) ==
    LET union_col == IF "pco2_threshold_0_24h" \in df.columns THEN Some("pco2_threshold_0_24h")
                     ELSE IF "pco2_threshold_any" \in df.columns THEN Some("pco2_threshold_any")
                     ELSE None
        mismatch == Cardinality({i \in 1..Len(df.rows) :
                        Or3(df.rows[i].abg_hypercap_threshold,
                            df.rows[i].vbg_hypercap_threshold,
                            df.rows[i].unknown_hypercap_threshold)
                        # df.rows[i][Get(union_col)]})
    IN (IF union_col = Some("pco2_threshold_any")
        THEN << Finding("warning", "pco2_threshold_any_deprecated_alias", <<>>) >>
        ELSE <<>>)
       \o (IF ~(ThresholdFlagColumns \subseteq df.columns) THEN <<>>
           ELSE IF IsNone(union_col)
           THEN << Finding("error", "pco2_threshold_0_24h_missing", <<>>) >>
           ELSE IF mismatch > 0
           THEN << Finding("error",
                           IF union_col = Some("pco2_threshold_0_24h")
                           THEN "pco2_threshold_0_24h_mismatch"
                           ELSE "pco2_threshold_any_mismatch",
                           <<mismatch>>) >>
           ELSE <<>>)

\* The time-integrity rules of validate_cohort_contract.
TimeIntegrityFindings(df) ==
    LET mismatch_n == Cardinality({i \in 1..Len(df.rows) :
                          (df.rows[i].timing_usable_for_model = 1)
                          # ~df.rows[i].time_integrity_any})
    IN (IF IntegrityFlagColumns \ df.columns # {}
        THEN << Finding("warning", "missing_time_integrity_flags",
                        <<IntegrityFlagColumns \ df.columns>>) >>
        ELSE <<>>)
       \o (IF "time_integrity_any" \notin df.columns THEN <<>>
           ELSE IF "timing_usable_for_model" \notin df.columns
           THEN << Finding("warning", "missing_timing_usable_for_model", <<>>) >>
           ELSE IF mismatch_n > 0
           THEN << Finding("error", "timing_usable_for_model_inconsistent", <<mismatch_n>>) >>
           ELSE <<>>)

\* The coverage floors of first_hco3, in hundredths.
COHORT_HCO3_GAS_WARN_MIN_COVERAGE == 80
COHORT_HCO3_GAS_FAIL_MIN_COVERAGE == 60
COHORT_HCO3_ICD_ONLY_WARN_MIN_COVERAGE == 50

\* The gas-positive coverage rule with its floors taken in the other order:
\* whatever is below the warn floor is a warning.
Hco3GasPositiveFindingsWarnFirst(df) ==
    LET rows == df.rows
        notna(S) == Cardinality({i \in S : ~IsNone(rows[i].first_hco3)})
        below(S, floor) == notna(S) * 100 < floor * Cardinality(S)
        gas_positive == {i \in 1..Len(rows) : rows[i].pco2_threshold_0_24h = 1}
    IN IF {"first_hco3", "pco2_threshold_0_24h"} \subseteq df.columns /\ gas_positive # {}
       THEN IF below(gas_positive, COHORT_HCO3_GAS_WARN_MIN_COVERAGE)
            THEN << Finding("warning", "first_hco3_coverage_low",
                            <<"gas-positive", notna(gas_positive), Cardinality(gas_positive)>>) >>
            ELSE IF below(gas_positive, COHORT_HCO3_GAS_FAIL_MIN_COVERAGE)
            THEN << Finding("error", "first_hco3_coverage_low",
                            <<"gas-positive", notna(gas_positive), Cardinality(gas_positive)>>) >>
            ELSE <<>>
       ELSE <<>>

\* The first_hco3 coverage rule over the gas-positive rows, against the fail
\* and the warn floor.  A coverage .notna().mean() is the fraction
\* notna(S) / |S|, named in the message by its scope and the two counts.
Hco3GasPositiveFindings(df) ==
    LET rows == df.rows
        notna(S) == Cardinality({i \in S : ~IsNone(rows[i].first_hco3)})
        below(S, floor) == notna(S) * 100 < floor * Cardinality(S)
        gas_positive == {i \in 1..Len(rows) : rows[i].pco2_threshold_0_24h = 1}
    IN IF {"first_hco3", "pco2_threshold_0_24h"} \subseteq df.columns /\ gas_positive # {}
       THEN IF below(gas_positive, COHORT_HCO3_GAS_FAIL_MIN_COVERAGE)
            THEN << Finding("error", "first_hco3_coverage_low",
                            <<"gas-positive", notna(gas_positive), Cardinality(gas_positive)>>) >>
            ELSE IF below(gas_positive, COHORT_HCO3_GAS_WARN_MIN_COVERAGE)
            THEN << Finding("warning", "first_hco3_coverage_low",
                            <<"gas-positive", notna(gas_positive), Cardinality(gas_positive)>>) >>
            ELSE <<>>
       ELSE <<>>

\* The first_hco3 coverage rule over the ICD-only rows, or over all rows when
\* there is no enrollment_route column; the mean over no rows is NaN and
\* below no floor.
Hco3RouteFindings(df) ==
    LET rows == df.rows
        all == 1..Len(rows)
        notna(S) == Cardinality({i \in S : ~IsNone(rows[i].first_hco3)})
        below(S, floor) == notna(S) * 100 < floor * Cardinality(S)
        icd_only == {i \in all : rows[i].enrollment_route = "ICD_ONLY"}
    IN IF {"first_hco3", "enrollment_route"} \subseteq df.columns
       THEN IF icd_only # {} /\ below(icd_only, COHORT_HCO3_ICD_ONLY_WARN_MIN_COVERAGE)
            THEN << Finding("warning", "first_hco3_coverage_low",
                            <<"ICD-only", notna(icd_only), Cardinality(icd_only)>>) >>
            ELSE <<>>
       ELSE IF "first_hco3" \in df.columns /\ below(all, COHORT_HCO3_GAS_WARN_MIN_COVERAGE)
       THEN << Finding("warning", "first_hco3_coverage_low",
                       <<"overall", notna(all), Cardinality(all)>>) >>
       ELSE <<>>

\* The negative-length-of-stay rule of validate_cohort_contract; a null cell
\* is None.
HospitalLosFindings(df) ==
    LET negative_n == Cardinality({i \in 1..Len(df.rows) :
                          /\ ~IsNone(df.rows[i].hospital_los_hours_model)
                          /\ Get(df.rows[i].hospital_los_hours_model) < 0})
    IN IF "hospital_los_hours_model" \in df.columns /\ negative_n > 0
       THEN << Finding("error", "hospital_los_hours_model_negative", <<negative_n>>) >>
       ELSE <<>>

\* The findings of validate_cohort_contract, in the order of its rules.  The rules over
\* columns that no frame of this model holds are left out: each of them is
\* skipped by the code when its columns are absent.
CohortRuleFindings(df) ==
            (IF "hadm_id" \in df.columns /\ DuplicatedCount(df.rows, "hadm_id") > 0
             THEN << Finding("error", "hadm_id_not_unique",
                             <<DuplicatedCount(df.rows, "hadm_id")>>) >>
             ELSE <<>>)
            \o (IF "ed_stay_id" \in df.columns /\ DuplicatedCount(df.rows, "ed_stay_id") > 0
                THEN << Finding("error", "ed_stay_id_not_unique",
                                <<DuplicatedCount(df.rows, "ed_stay_id")>>) >>
                ELSE <<>>)
            \o ThresholdUnionFindings(df)
            \o (IF SourceDiagColumns \ df.columns # {}
                THEN << Finding("warning", "missing_gas_source_diagnostic_columns_export",
                                <<SourceDiagColumns \ df.columns>>) >>
                ELSE <<>>)
            \o HospitalLosFindings(df)
            \o TimeIntegrityFindings(df)
            \o Hco3GasPositiveFindings(df)
            \o Hco3RouteFindings(df)

\* A validator that returns as soon as it has found duplicate hadm_id rows.
ValidateCohortContractStopsAtDuplicates(df) ==
    LET all == CohortRuleFindings(df)
        findings == IF all # <<>> /\ all[1].code = "hadm_id_not_unique" THEN << all[1] >>
                    ELSE all
    IN [status |-> StatusFromFindings(findings),
        row_count |-> Len(df.rows),
        column_count |-> Cardinality(df.columns),
        findings |-> findings]

\* The report validate_cohort_contract returns.
ValidateCohortContract(df) ==
    LET findings == CohortRuleFindings(df)
    IN [status |-> StatusFromFindings(findings),
        row_count |-> Len(df.rows),
        column_count |-> Cardinality(df.columns),
        findings |-> findings]

\* A segment_preds cell parses to a list: "[]" does, "{}" parses to a dict
\* and "[" is not JSON.
SegmentPredsBad(value) == value \in {"{}", "["}

CcMissingnessColumns == {"cc_missing_reason", "cc_pseudomissing_flag", "cc_missing_flag"}

BgColumns == {"hypercap_by_abg", "hypercap_by_vbg", "hypercap_by_bg"}

\* The blood-gas union rules of validate_classifier_contract, for a frame
\* without the authoritative flag columns.
BgUnionFindings(df) ==
    LET mismatch == Cardinality({i \in 1..Len(df.rows) :
                        Or3(df.rows[i].hypercap_by_abg, df.rows[i].hypercap_by_vbg, 0)
                        # df.rows[i].hypercap_by_bg})
        abg_positive == {i \in 1..Len(df.rows) : df.rows[i].hypercap_by_abg = 1}
    IN IF ~(BgColumns \subseteq df.columns) THEN <<>>
       ELSE (IF mismatch > 0
             THEN << Finding("error", "bg_union_mismatch", <<mismatch>>) >>
             ELSE <<>>)
            \o (IF abg_positive = {}
                THEN << Finding("warning", "abg_all_zero", <<>>) >>
                ELSE <<>>)

\* validate_classifier_contract, in the order of its rules.
ValidateClassifierContract(df) ==
    LET bad_json_rows == Cardinality({i \in 1..Len(df.rows) :
                             SegmentPredsBad(df.rows[i].segment_preds)})
        findings ==
            (IF "hadm_id" \in df.columns /\ DuplicatedCount(df.rows, "hadm_id") > 0
             THEN << Finding("error", "hadm_id_not_unique",
                             <<DuplicatedCount(df.rows, "hadm_id")>>) >>
             ELSE <<>>)
            \o (IF "segment_preds" \notin df.columns
                THEN << Finding("error", "missing_segment_preds", <<>>) >>
                ELSE IF bad_json_rows > 0
                THEN << Finding("error", "segment_preds_malformed", <<bad_json_rows>>) >>
                ELSE <<>>)
            \o BgUnionFindings(df)
            \o (IF CcMissingnessColumns \ df.columns # {}
                THEN << Finding("error", "missing_cc_missingness_columns",
                                <<CcMissingnessColumns \ df.columns>>) >>
                ELSE <<>>)
        error_count == Cardinality({i \in 1..Len(findings) : findings[i].severity = "error"})
        warning_count == Cardinality({i \in 1..Len(findings) : findings[i].severity = "warning"})
    IN [status |-> IF error_count > 0 THEN "fail"
                   ELSE IF warning_count > 0 THEN "warning" ELSE "pass",
        error_count |-> error_count,
        warning_count |-> warning_count,
        findings |-> findings,
        row_count |-> Len(df.rows),
        column_count |-> Cardinality(df.columns)]

\* The audit-artifact loop of the cohort branch: one error finding for each
\* suffix without a file under the prior-runs directory, one for each whose
\* latest file does not parse.
CohortAuditArtifactFindings(prior_runs) ==
    Flatten([i \in 1..Len(COHORT_REQUIRED_AUDIT_SUFFIXES) |->
        LET suffix == COHORT_REQUIRED_AUDIT_SUFFIXES[i]
            state == IF prior_runs.exists THEN prior_runs.audits[suffix] ELSE "absent"
        IN IF state = "absent"
           THEN << Finding("error", "missing_cohort_audit_artifact", <<suffix>>) >>
           ELSE IF state = "invalid"
           THEN << Finding("error", "invalid_cohort_audit_artifact", <<suffix>>) >>
           ELSE <<>>])

\* The cohort branch for an existing workbook that was read: the sub-report
\* keeps the status validate_cohort_contract computed, and the audit-artifact
\* findings are appended to its findings afterwards.
CohortBranch(df, prior_runs) ==
    LET cohort_report == ValidateCohortContract(df)
    IN [cohort_report EXCEPT
           !.findings = @ \o CohortAuditArtifactFindings(prior_runs)]

\* The classifier branch for an existing workbook that was read: without a
\* cc-missing audit file the sub-report is set to fail and gains one error.
ClassifierBranch(df, prior_runs) ==
    LET classifier_report == ValidateClassifierContract(df)
    IN IF prior_runs.exists /\ prior_runs.cc_missing_audit
       THEN classifier_report
       ELSE [classifier_report EXCEPT
                !.status = "fail",
                !.error_count = @ + 1,
                !.findings = Append(@, Finding("error",
                                 "missing_classifier_cc_missing_audit", <<>>))]

\* A sub-report that was not evaluated.
Unevaluated(status) == [status |-> status, findings |-> <<>>]

\* build_pipeline_contract_report_for_stages on the workbooks (None: the file
\* does not exist) and the prior-runs directory.
BuildPipelineContractReportForStages(c, stages) ==
    LET requested == {stages[i] : i \in 1..Len(stages)}
        cohort_reads == "cohort" \in requested /\ ~IsNone(c.cohort)
        classifier_reads == "classifier" \in requested /\ ~IsNone(c.classifier)
        cohort == IF "cohort" \notin requested THEN Unevaluated("skipped")
                  ELSE IF IsNone(c.cohort) THEN Unevaluated("missing")
                  ELSE CohortBranch(Get(c.cohort), c.prior_runs)
        classifier == IF "classifier" \notin requested THEN Unevaluated("skipped")
                      ELSE IF IsNone(c.classifier) THEN Unevaluated("missing")
                      ELSE ClassifierBranch(Get(c.classifier), c.prior_runs)
        findings ==
            (IF "cohort" \in requested /\ IsNone(c.cohort)
             THEN << Finding("error", "missing_cohort_artifact", <<>>) >>
             ELSE cohort.findings)
            \o (IF "classifier" \in requested /\ IsNone(c.classifier)
                THEN << Finding("error", "missing_classifier_artifact", <<>>) >>
                ELSE classifier.findings)
    IN IF requested \ {"cohort", "classifier"} # {} THEN [exc |-> "ValueError"]
       ELSE IF cohort_reads /\ ~Get(c.cohort).readable THEN [exc |-> "ReadError"]
       ELSE IF classifier_reads /\ ~Get(c.classifier).readable THEN [exc |-> "ReadError"]
       ELSE [exc |-> "none",
             status |-> StatusFromFindings(findings),
             contracts |-> [cohort |-> cohort, classifier |-> classifier],
             findings |-> findings,
             stages |-> requested]

(***************************************************************************)
(* Validation inputs: the healthy working directory of the tests and the   *)
(* defects a run can leave in it.  A defect is [kind, target].             *)
(***************************************************************************)
MaxDefects == 2

Defect(kind, target) == [kind |-> kind, target |-> target]

Has(S, kind, target) == Defect(kind, target) \in S

CC_MISSING_AUDIT == "classifier_cc_missing_audit.csv"

Defects ==
    {Defect("missing", n) : n \in ArtifactNames}
    \cup {Defect("stale", "qa_summary"), Defect("empty", "rater_summary")}
    \cup {Defect("malformed", n) : n \in {"qa_summary", "rater_join_audit"}}
    \cup {Defect(k, "cohort_workbook") :
              k \in {"unreadable", "no_hadm_id", "duplicate_hadm_id", "no_rows",
                     "no_diag_columns", "threshold_mismatch"}}
    \cup {Defect(k, "classifier_workbook") :
              k \in {"unreadable", "duplicate_hadm_id", "infinite", "abg_all_zero"}}
    \cup {Defect("no_vitals", "qa_summary"), Defect("zero_matches", "rater_join_audit")}
    \cup {Defect("missing", "prior_runs"),
          Defect("missing", COHORT_REQUIRED_AUDIT_SUFFIXES[1]),
          Defect("invalid", COHORT_REQUIRED_AUDIT_SUFFIXES[2]),
          Defect("missing", CC_MISSING_AUDIT)}

RECURSIVE SetsUpTo(_, _)
SetsUpTo(D, n) ==
    IF n = 0 THEN {{}}
    ELSE LET smaller == SetsUpTo(D, n - 1)
         IN smaller \cup {s \cup {d} : s \in smaller, d \in D}

DefectSets == SetsUpTo(Defects, MaxDefects)

CohortRow(hadm_id, union) ==
    [hadm_id |-> hadm_id, subject_id |-> hadm_id, ed_stay_id |-> hadm_id,
     abg_hypercap_threshold |-> 1, vbg_hypercap_threshold |-> 0,
     unknown_hypercap_threshold |-> 0,
     pco2_threshold_0_24h |-> union, pco2_threshold_any |-> union,
     time_integrity_any |-> FALSE, timing_usable_for_model |-> 1]

CohortColumns ==
    REQUIRED_COHORT_COLUMNS \cup ThresholdFlagColumns \cup {"pco2_threshold_0_24h"}
    \cup SourceDiagColumns \cup IntegrityFlagColumns \cup {"timing_usable_for_model"}

\* The cohort workbook with the defects of S.
CohortFrame(S) ==
    LET n == "cohort_workbook"
    IN [readable |-> ~Has(S, "unreadable", n),
        columns |->
            (CohortColumns \ (IF Has(S, "no_hadm_id", n) THEN {"hadm_id"} ELSE {}))
                \ (IF Has(S, "no_diag_columns", n) THEN SourceDiagColumns ELSE {}),
        rows |-> IF Has(S, "no_rows", n) THEN <<>>
                 ELSE << CohortRow(1, IF Has(S, "threshold_mismatch", n) THEN 0 ELSE 1),
                         CohortRow(IF Has(S, "duplicate_hadm_id", n) THEN 1 ELSE 2, 1) >>,
        inf_count |-> 0]

ClassifierRow(hadm_id, abg) ==
    [hadm_id |-> hadm_id, subject_id |-> hadm_id, segment_preds |-> "[]",
     hypercap_by_abg |-> abg, hypercap_by_vbg |-> 0, hypercap_by_bg |-> abg]

ClassifierColumns ==
    REQUIRED_CLASSIFIER_COLUMNS \cup {"segment_preds"} \cup CcMissingnessColumns
    \cup BgColumns

\* The classifier workbook with the defects of S.
ClassifierFrame(S) ==
    LET n == "classifier_workbook"
    IN [readable |-> ~Has(S, "unreadable", n),
        columns |-> ClassifierColumns,
        rows |-> << ClassifierRow(1, IF Has(S, "abg_all_zero", n) THEN 0 ELSE 1),
                    ClassifierRow(IF Has(S, "duplicate_hadm_id", n) THEN 1 ELSE 2, 0) >>,
        inf_count |-> IF Has(S, "infinite", n) THEN 1 ELSE 0]

\* qa_summary.json with the defects of S.
QaSummary(S) ==
    [valid |-> ~Has(S, "malformed", "qa_summary"),
     keys |-> {"gas_source_audit", "omr_diagnostics", "uom_expectation_checks",
               "vitals_outlier_audit", "first_other_pco2_audit"}
              \ (IF Has(S, "no_vitals", "qa_summary") THEN {"vitals_outlier_audit"} ELSE {}),
     metrics |-> CanonicalQa.metrics,
     gas_source_audit |-> [all_other_or_unknown |-> FALSE],
     omr |-> [pre_rows |-> 0, post_rows |-> 0, attached_total |-> 0],
     paco2_uom_checks |-> << [uom_field |-> "poc_other_paco2_uom",
                              present |-> TRUE, passes |-> TRUE] >>,
     vitals_outlier_audit |-> << [out_of_range_pct |-> Some(1)] >>,
     first_other_pco2_audit |-> << [source |-> "POC", pct_eq_160 |-> Some(5)] >>]

\* The rater join audit with the defects of S.
RaterJoinAudit(S) ==
    [valid |-> ~Has(S, "malformed", "rater_join_audit"),
     doc |-> [matched_rows |-> IF Has(S, "zero_matches", "rater_join_audit")
                               THEN Some(0) ELSE Some(1)]]

\* What load_and_validate_artifacts reads.
AuditView(S) ==
    [artifacts |-> [n \in ArtifactNames |->
                       [exists |-> ~Has(S, "missing", n),
                        fresh |-> ~Has(S, "stale", n),
                        size_bytes |-> IF Has(S, "empty", n) THEN 0 ELSE 1]],
     qa |-> QaSummary(S),
     rater |-> RaterJoinAudit(S),
     cohort |-> CohortFrame(S),
     classifier |-> ClassifierFrame(S)]

\* The prior-runs directory with the defects of S.
PriorRuns(S) ==
    [exists |-> ~Has(S, "missing", "prior_runs"),
     audits |-> [suffix \in AuditSuffixes |->
                    IF Has(S, "missing", "prior_runs") \/ Has(S, "missing", suffix)
                    THEN "absent"
                    ELSE IF Has(S, "invalid", suffix) THEN "invalid"
                    ELSE "valid"],
     cc_missing_audit |-> ~Has(S, "missing", "prior_runs")
                          /\ ~Has(S, "missing", CC_MISSING_AUDIT)]

\* What build_pipeline_contract_report_for_stages reads.
ContractView(S) ==
    [cohort |-> IF Has(S, "missing", "cohort_workbook") THEN None
                ELSE Some(CohortFrame(S)),
     classifier |-> IF Has(S, "missing", "classifier_workbook") THEN None
                    ELSE Some(ClassifierFrame(S)),
     prior_runs |-> PriorRuns(S)]

(***************************************************************************)
(* Validation as a state machine: a working directory with defects, the    *)
(* artifact validator, the audit report builder and the contract report    *)
(* builder applied to it.                                                  *)
(***************************************************************************)
\* The strictness the command line accepts, and one it does not.
Strictnesses == {"fail_on_key_anomalies", "report_only"}

\* What the rest of an audit run hands to build_audit_report: stage results,
\* preflight findings, drift rows and log findings.
AuditScenarios ==
    LET stage(rc) == [stage_id |-> "01_cohort", returncode |-> rc]
    IN {[stages |-> << stage(Some(0)) >>, preflight_findings |-> <<>>,
         drift_rows |-> <<>>, log_findings |-> <<>>],
        [stages |-> << stage(Some(0)) >>, preflight_findings |-> <<>>,
         drift_rows |->
            << [metric |-> "pct_any_gas_0_24h", abs_delta |-> 5, severity |-> "warning"] >>,
         log_findings |-> <<>>],
        [stages |-> << stage(Some(1)), stage(None) >>,
         preflight_findings |->
            << AuditFinding("P2", "preflight", "work_dir_mismatch", <<>>) >>,
         drift_rows |-> <<>>, log_findings |-> <<>>],
        [stages |-> << stage(Some(0)) >>, preflight_findings |-> <<>>,
         drift_rows |->
            << [metric |-> "icu_link_rate", abs_delta |-> 9, severity |-> "fail"],
               [metric |-> "pct_any_gas_0_24h", abs_delta |-> 5, severity |-> "warning"],
               [metric |-> "pct_any_gas_0_6h", abs_delta |-> 1, severity |-> "ok"] >>,
         log_findings |->
            << [stage_id |-> "01_cohort", line_number |-> 1, severity |-> "P1",
                pattern |-> "runtime_warning"] >>]}

StageScopes == {<<"cohort", "classifier">>, <<"cohort">>, <<"classifier">>, <<"rater">>}

\* load_and_validate_artifacts(work_dir, run_started_at_utc=...)
Validate ==
    /\ audit_out' = [artifact_result |-> Some(LoadAndValidateArtifacts(audit_in)),
                     report |-> None]
    /\ UNCHANGED <<audit_in, contractVars>>

\* build_audit_report(..., artifact_result=..., strictness=...)
BuildReport(strictness, scenario) ==
    /\ ~IsNone(audit_out.artifact_result)
    /\ audit_out' = [audit_out EXCEPT !.report =
           Some(BuildAuditReport(scenario.stages, scenario.preflight_findings,
                                 Get(audit_out.artifact_result), scenario.drift_rows,
                                 scenario.log_findings, strictness))]
    /\ UNCHANGED <<audit_in, contractVars>>

\* build_pipeline_contract_report_for_stages(work_dir, stages=...)
BuildContract(stages) ==
    /\ contract_out' = Some(BuildPipelineContractReportForStages(contract_in, stages))
    /\ UNCHANGED <<auditVars, contract_in>>

ValidateInit ==
    /\ \E S \in DefectSets :
          /\ audit_in = AuditView(S)
          /\ contract_in = ContractView(S)
    /\ audit_out = [artifact_result |-> None, report |-> None]
    /\ contract_out = None
    /\ RunnerIdle /\ ParityIdle /\ CliIdle

ValidateNext ==
    \/ Validate /\ UNCHANGED <<runnerVars, parityVars, cliVars>>
    \/ \E strictness \in Strictnesses, scenario \in AuditScenarios :
          BuildReport(strictness, scenario) /\ UNCHANGED <<runnerVars, parityVars, cliVars>>
    \/ \E stages \in StageScopes :
          BuildContract(stages) /\ UNCHANGED <<runnerVars, parityVars, cliVars>>

SpecValidate == ValidateInit /\ [][ValidateNext]_vars

(***************************************************************************)
(* Audit: baseline metrics and metric drift.  Rates are in hundredths, row *)
(* counts are plain integers.                                              *)
(***************************************************************************)
\* DRIFT_RULES, thresholds in hundredths.
DRIFT_RULES ==
    [cohort_rows |-> [compare |-> "relative", warn |-> 5, fail |-> 10],
     classifier_rows |-> [compare |-> "relative", warn |-> 5, fail |-> 10],
     icu_link_rate |-> [compare |-> "absolute", warn |-> 4, fail |-> 8],
     pct_any_gas_0_6h |-> [compare |-> "absolute", warn |-> 4, fail |-> 8],
     pct_any_gas_0_24h |-> [compare |-> "absolute", warn |-> 4, fail |-> 8],
     gas_source_other_rate |-> [compare |-> "absolute", warn |-> 4, fail |-> 8],
     first_other_pco2_pct_eq_160_poc |-> [compare |-> "absolute", warn |-> 5, fail |-> 10]]

\* The metric names in the order sort_values("metric") puts them.
SORTED_METRICS ==
    <<"classifier_rows", "cohort_rows", "first_other_pco2_pct_eq_160_poc",
      "gas_source_other_rate", "icu_link_rate", "pct_any_gas_0_24h", "pct_any_gas_0_6h">>

\* A drift row whose thresholds are crossed by a delta equal to them.
DriftRowInclusive(metric, current_value, baseline_value) ==
    LET rule == DRIFT_RULES[metric]
        abs_delta == Abs(current_value - baseline_value)
        relative_delta == IF baseline_value = 0 THEN None
                          ELSE Some(<<abs_delta, Abs(baseline_value)>>)
        reaches(threshold) ==
            IF rule.compare = "relative"
            THEN abs_delta * 100 >= threshold * Abs(baseline_value)
            ELSE abs_delta >= threshold
    IN [metric |-> metric,
        current_value |-> current_value,
        baseline_value |-> baseline_value,
        delta |-> current_value - baseline_value,
        abs_delta |-> abs_delta,
        relative_delta |-> relative_delta,
        compare_type |-> rule.compare,
        warn_threshold |-> rule.warn,
        fail_threshold |-> rule.fail,
        severity |-> IF rule.compare = "relative" /\ IsNone(relative_delta) THEN "warning"
                     ELSE IF reaches(rule.fail) THEN "fail"
                     ELSE IF reaches(rule.warn) THEN "warning"
                     ELSE "ok"]

\* A drift row that takes a relative delta over a zero baseline for zero.
DriftRowZeroBaselineOk(metric, current_value, baseline_value) ==
    LET rule == DRIFT_RULES[metric]
        abs_delta == Abs(current_value - baseline_value)
        relative_delta == IF baseline_value = 0 THEN Some(<<0, 1>>)
                          ELSE Some(<<abs_delta, Abs(baseline_value)>>)
        exceeds(threshold) ==
            IF rule.compare = "relative"
            THEN Get(relative_delta)[1] * 100 > threshold * Get(relative_delta)[2]
            ELSE abs_delta > threshold
    IN [metric |-> metric,
        current_value |-> current_value,
        baseline_value |-> baseline_value,
        delta |-> current_value - baseline_value,
        abs_delta |-> abs_delta,
        relative_delta |-> relative_delta,
        compare_type |-> rule.compare,
        warn_threshold |-> rule.warn,
        fail_threshold |-> rule.fail,
        severity |-> IF exceeds(rule.fail) THEN "fail"
                     ELSE IF exceeds(rule.warn) THEN "warning"
                     ELSE "ok"]

\* One row of compute_metric_drift.  A relative delta is kept as the pair
\* <<abs_delta, |baseline|>>; it is None for a baseline of zero.
DriftRow(metric, current_value, baseline_value) ==
    LET rule == DRIFT_RULES[metric]
        abs_delta == Abs(current_value - baseline_value)
        relative_delta == IF baseline_value = 0 THEN None
                          ELSE Some(<<abs_delta, Abs(baseline_value)>>)
        exceeds(threshold) ==
            IF rule.compare = "relative"
            THEN abs_delta * 100 > threshold * Abs(baseline_value)
            ELSE abs_delta > threshold
    IN [metric |-> metric,
        current_value |-> current_value,
        baseline_value |-> baseline_value,
        delta |-> current_value - baseline_value,
        abs_delta |-> abs_delta,
        relative_delta |-> relative_delta,
        compare_type |-> rule.compare,
        warn_threshold |-> rule.warn,
        fail_threshold |-> rule.fail,
        severity |-> IF rule.compare = "relative" /\ IsNone(relative_delta) THEN "warning"
                     ELSE IF exceeds(rule.fail) THEN "fail"
                     ELSE IF exceeds(rule.warn) THEN "warning"
                     ELSE "ok"]

\* compute_metric_drift: one row for each metric with a current value, a
\* baseline value and a rule, sorted by metric.  Sorting a frame without rows
\* has no "metric" column to sort by and raises KeyError.
ComputeMetricDrift(current_metrics, baseline_metrics) ==
    LET comparable == (DOMAIN current_metrics \cap DOMAIN baseline_metrics)
                      \cap DOMAIN DRIFT_RULES
    IN IF comparable = {} THEN [exc |-> "KeyError"]
       ELSE [exc |-> "none",
             rows |-> LET names == SelectSeq(SORTED_METRICS, LAMBDA m : m \in comparable)
                      IN [i \in 1..Len(names) |->
                             DriftRow(names[i], current_metrics[names[i]],
                                      baseline_metrics[names[i]])]]

\* resolve_baseline_metrics: the metrics found in the dated prior-run files,
\* then those of the pre-run qa_summary for the metrics still without a value.
ResolveBaselineMetrics(prior_metrics, pre_run_qa_summary) ==
    LET qa_truthy == QaTruthy(pre_run_qa_summary)
        first_other == IF qa_truthy THEN FindFirstOtherPco2PctEq160(Get(pre_run_qa_summary))
                       ELSE None
        from_qa == IF qa_truthy
                   THEN (({KEY_QA_METRICS[i] : i \in 1..Len(KEY_QA_METRICS)}
                             \cap DOMAIN Get(pre_run_qa_summary).metrics)
                         \cup (IF IsNone(first_other) THEN {} ELSE {FIRST_OTHER_METRIC}))
                        \ DOMAIN prior_metrics
                   ELSE {}
    IN [m \in DOMAIN prior_metrics \cup from_qa |->
           IF m \in DOMAIN prior_metrics THEN prior_metrics[m]
           ELSE IF m = FIRST_OTHER_METRIC THEN Get(first_other)
           ELSE Get(pre_run_qa_summary).metrics[m]]

\* Metric values, in hundredths, up to one step beyond the largest threshold.
MaxMetric == 11

\* The metrics the drift inputs range over: two absolute rules with
\* different thresholds, one relative rule, one metric without a rule.  The
\* current values of the absolute metrics take every value, the others one.
AbsoluteMetrics == {"icu_link_rate", "first_other_pco2_pct_eq_160_poc"}
DriftMetrics == AbsoluteMetrics \cup {"cohort_rows", "unruled_metric"}

\* Maps from some of the names to the values.
MetricMaps(names, values) == UNION {[D -> values] : D \in SUBSET names}

\* compute_metric_drift(current_metrics, baseline_metrics)
ComputeDrift ==
    /\ IsNone(audit_out)
    /\ audit_out' = Some(ComputeMetricDrift(audit_in.current_metrics,
                                            audit_in.baseline_metrics))
    /\ UNCHANGED <<audit_in, contractVars>>

\* Another pair of metric maps is taken up.
NextDriftInput ==
    /\ ~IsNone(audit_out)
    /\ \E b \in MetricMaps(DriftMetrics, {0, 2}) :
          audit_in' = [audit_in EXCEPT !.baseline_metrics = b]
    /\ audit_out' = None
    /\ UNCHANGED contractVars

DriftInit ==
    /\ \E c \in MetricMaps(AbsoluteMetrics, 0..MaxMetric),
          d \in MetricMaps(DriftMetrics \ AbsoluteMetrics, {3}) :
          audit_in = [current_metrics |-> c @@ d, baseline_metrics |-> <<>>]
    /\ audit_out = None
    /\ RunnerIdle /\ ParityIdle /\ ContractIdle /\ CliIdle

DriftNext ==
    \/ ComputeDrift /\ UNCHANGED <<runnerVars, parityVars, cliVars>>
    \/ NextDriftInput /\ UNCHANGED <<runnerVars, parityVars, cliVars>>

SpecDrift == DriftInit /\ [][DriftNext]_vars

(***************************************************************************)
(* Claims about missing artifacts and derived status.                      *)
(***************************************************************************)
\* The artifacts the validator requires that the working directory lacks.
AuditMissing == {n \in ArtifactNames : ~audit_in.artifacts[n].exists}

\* The validator has run and reports artifact n as missing with a P0 finding.
AuditReportsMissing(n) ==
    \E i \in 1..Len(Get(audit_out.artifact_result).findings) :
        LET f == Get(audit_out.artifact_result).findings[i]
        IN f.severity = "P0" /\ f.code = "missing_artifact" /\ f.message = <<n>>

\* Validator part: each missing artifact has its P0 finding, and a report
\* built under the default strictness has status fail.
AuditMissingIsFail ==
    /\ ~IsNone(audit_out.artifact_result) => \A n \in AuditMissing : AuditReportsMissing(n)
    /\ (/\ ~IsNone(audit_out.report)
        /\ Get(audit_out.report).strictness = "fail_on_key_anomalies"
        /\ AuditMissing # {})
           => Get(audit_out.report).status = "fail"

\* The contract builder returned a report.
ContractReturned == ~IsNone(contract_out) /\ Get(contract_out).exc = "none"

\* The audit artifacts of each stage that the prior-runs directory lacks.
CohortAuditsMissing ==
    {suffix \in AuditSuffixes :
        ~contract_in.prior_runs.exists \/ contract_in.prior_runs.audits[suffix] = "absent"}

ClassifierAuditsMissing ==
    IF contract_in.prior_runs.exists /\ contract_in.prior_runs.cc_missing_audit
    THEN {} ELSE {CC_MISSING_AUDIT}

\* Every required artifact of the requested stages that is missing.
ContractMissing ==
    (IF "cohort" \in Get(contract_out).stages
     THEN (IF IsNone(contract_in.cohort) THEN {"cohort_workbook"} ELSE {})
          \cup CohortAuditsMissing
     ELSE {})
    \cup (IF "classifier" \in Get(contract_out).stages
          THEN (IF IsNone(contract_in.classifier) THEN {"classifier_workbook"} ELSE {})
               \cup ClassifierAuditsMissing
          ELSE {})

\* The missing required artifacts the builder looks for: the workbook of a
\* requested stage and, when that workbook exists, the stage's audit artifacts.
ContractMissingEvaluated ==
    (IF "cohort" \in Get(contract_out).stages
     THEN (IF IsNone(contract_in.cohort) THEN {"cohort_workbook"} ELSE CohortAuditsMissing)
     ELSE {})
    \cup (IF "classifier" \in Get(contract_out).stages
          THEN (IF IsNone(contract_in.classifier) THEN {"classifier_workbook"}
                ELSE ClassifierAuditsMissing)
          ELSE {})

\* The contract report holds an error finding whose code, with the suffix in
\* its message for a cohort audit artifact, identifies artifact a.
ContractReportsMissing(a) ==
    \E i \in 1..Len(Get(contract_out).findings) :
        LET f == Get(contract_out).findings[i]
        IN /\ f.severity = "error"
           /\ \/ a = "cohort_workbook" /\ f.code = "missing_cohort_artifact"
              \/ a = "classifier_workbook" /\ f.code = "missing_classifier_artifact"
              \/ a = CC_MISSING_AUDIT /\ f.code = "missing_classifier_cc_missing_audit"
              \/ /\ a \in AuditSuffixes
                 /\ f.code = "missing_cohort_audit_artifact"
                 /\ f.message = <<a>>

(* C7 as stated: every missing required artifact yields an error-severity
   finding that identifies it, in the artifact validator (P0) and in the
   contract report builder (error), and the status derived from the findings
   is fail. *)
C7_EveryMissingArtifactReported ==
    /\ AuditMissingIsFail
    /\ ContractReturned =>
          /\ \A a \in ContractMissing : ContractReportsMissing(a)
          /\ ContractMissing # {} => Get(contract_out).status = "fail"

(* C7, amended: the validator reports every missing artifact with a P0
   missing_artifact finding and the status derived under the default
   strictness is fail; the contract builder, when it returns, reports with an
   error finding every missing required artifact it looks for (the workbook
   of a requested stage and, when that workbook exists, its audit artifacts),
   and whenever any required artifact is missing its overall status is
   fail. *)
C7_EvaluatedMissingArtifactReported ==
    /\ AuditMissingIsFail
    /\ ContractReturned =>
          /\ \A a \in ContractMissingEvaluated : ContractReportsMissing(a)
          /\ ContractMissing # {} => Get(contract_out).status = "fail"

C7_Witness ==
    /\ ~IsNone(audit_out.report)
    /\ Get(audit_out.report).strictness = "fail_on_key_anomalies"
    /\ "cohort_workbook" \in AuditMissing
    /\ AuditReportsMissing("cohort_workbook")
    /\ Get(audit_out.report).status = "fail"
    /\ ContractReturned
    /\ "cohort_workbook" \in ContractMissingEvaluated
    /\ CC_MISSING_AUDIT \in ContractMissingEvaluated
    /\ Get(contract_out).status = "fail"

\* A per-stage sub-report that was evaluated: neither missing nor skipped.
Evaluated(sub) == sub.status \notin {"missing", "skipped"}

(* C10: in every contract report the builder returns, the overall status and
   the status of each evaluated sub-report (cohort, classifier) equal the
   status derived from that report's own findings: fail with an error
   finding, else warning with a warning finding, else pass. *)
C10_StatusDerivedFromOwnFindings ==
    ContractReturned =>
        /\ Get(contract_out).status = StatusFromFindings(Get(contract_out).findings)
        /\ \A stage \in {"cohort", "classifier"} :
              LET sub == Get(contract_out).contracts[stage]
              IN Evaluated(sub) => sub.status = StatusFromFindings(sub.findings)

(***************************************************************************)
(* Command line: the main() of capture_jupyter_baseline.py,                *)
(* compare_pipeline_baseline.py, run_contract_checks.py and                *)
(* run_pipeline_audit.py, run in one working directory.                    *)
(*   cli = [script, exc, status, exit_code, written]: the last invocation, *)
(*   the exception that ended it ("none" when main returned), the status   *)
(*   of its report, its exit code and the files it wrote.                  *)
(***************************************************************************)
\* artifact_paths of the validator: the file behind each artifact name.
ArtifactPath(n) ==
    IF n = "cohort_workbook" THEN CANONICAL_COHORT_FILENAME
    ELSE IF n = "classifier_workbook" THEN CANONICAL_NLP_FILENAME
    ELSE IF n = "qa_summary" THEN QA_SUMMARY
    ELSE IF n = "rater_join_audit" THEN RATER_JOIN_AUDIT
    ELSE IF n = "rater_summary" THEN RATER_SUMMARY
    ELSE IF n = "analysis_export_1" THEN ANALYSIS_EXPORT_FILENAMES[1]
    ELSE IF n = "analysis_export_2" THEN ANALYSIS_EXPORT_FILENAMES[2]
    ELSE IF n = "analysis_export_3" THEN ANALYSIS_EXPORT_FILENAMES[3]
    ELSE ANALYSIS_EXPORT_FILENAMES[4]

\* What the parity routines read of a workbook: its ID columns.
IdView(frame) ==
    [readable |-> frame.readable,
     columns |-> frame.columns \cap IdColumns,
     rows |-> [i \in 1..Len(frame.rows) |->
                  Row(frame.rows[i].hadm_id, frame.rows[i].subject_id)]]

\* The working directory with the defects of S, as the parity routines read it.
ParityView(S) ==
    LET present == {n \in ArtifactNames : ~Has(S, "missing", n)}
        content(n) ==
            IF n = "cohort_workbook" THEN IdView(CohortFrame(S))
            ELSE IF n = "classifier_workbook" THEN IdView(ClassifierFrame(S))
            ELSE IF n = "qa_summary"
            THEN [valid |-> QaSummary(S).valid,
                  metrics |-> QaSummary(S).metrics,
                  first_other_pco2_audit |-> QaSummary(S).first_other_pco2_audit]
            ELSE IF n = "rater_join_audit" THEN RaterJoinAudit(S)
            ELSE IF n = "rater_summary" THEN [text |-> "ok"]
            ELSE CanonicalAnalysis
    IN [files |-> [a \in {ArtifactPath(n) : n \in present} |->
                      content(CHOOSE n \in present : ArtifactPath(n) = a)],
        latest_audit |-> FALSE,
        revision |-> 0]

\* Join audit documents: the empty object, one without a count, and counts
\* of null, zero and more.
RaterDocs ==
    {<<>>, [severity |-> "info"]}
    \cup {[matched_rows |-> v] : v \in {None, Some(0), Some(1), Some(2)}}

\* The rater stage writes R3_vs_NLP_join_audit.json.
RewriteRater(doc) ==
    /\ RewriteArtifact(RATER_JOIN_AUDIT, [valid |-> TRUE, doc |-> doc])
    /\ audit_in' = [audit_in EXCEPT !.rater = [valid |-> TRUE, doc |-> doc]]
    /\ audit_out' = [artifact_result |-> None, report |-> None]
    /\ UNCHANGED contractVars

NoInvocation ==
    [script |-> "none", mode |-> None, exc |-> "none", status |-> None,
     exit_code |-> None, written |-> {}]

Raised(script, exc) ==
    [script |-> script, mode |-> None, exc |-> exc, status |-> None,
     exit_code |-> None, written |-> {}]

Returned(script, status, exit_code, written) ==
    [script |-> script, mode |-> None, exc |-> "none", status |-> status,
     exit_code |-> Some(exit_code), written |-> written]

\* The captures made in one command-line session.
MaxCliCaptures == 1

\* --baseline of compare_pipeline_baseline.py: "latest" or a snapshot id.
Latest == [kind |-> "latest", dir |-> BaselineDir(None, None, 1)]

Explicit(dir) == [kind |-> "id", dir |-> dir]

\* resolve_baseline_dir: the directories it can return; none when it raises
\* FileNotFoundError.  "latest" is a directory with the greatest mtime.
ResolveBaselineDir(st, baseline) ==
    IF baseline.kind = "latest"
    THEN {d \in DOMAIN st : \A e \in DOMAIN st : st[e].mtime <= st[d].mtime}
    ELSE {baseline.dir} \cap DOMAIN st

PARITY_OUTPUTS == {"parity_report.json", "parity_summary.md"}

AUDIT_OUTPUTS ==
    {"run_manifest.json", "audit_report.json", "metric_drift.csv",
     "warnings_index.csv", "audit_summary.md"}

\* capture_jupyter_baseline.py main: exit code 1 when files were missing.
CaptureMain(baseline_id, label) ==
    /\ now < MaxCliCaptures
    /\ Capture(baseline_id, label)
    /\ cli' = IF last'.out.exc # "none" THEN Raised("capture", last'.out.exc)
              ELSE Returned("capture", None,
                            IF last'.out.missing_files # <<>> THEN 1 ELSE 0,
                            {"baseline_manifest.json"})
    /\ UNCHANGED <<auditVars, contractVars>>

\* compare_pipeline_baseline.py main: resolve the baseline, compare, write
\* the parity report, exit 1 on status fail.
CompareMain(baseline) ==
    LET dirs == ResolveBaselineDir(store, baseline)
    IN /\ IF dirs = {}
          THEN cli' = Raised("compare", "FileNotFoundError")
          ELSE \E dir \in dirs :
                  LET report == CompareCurrentToBaseline(wd, store[dir].manifest)
                  IN cli' = IF report.exc # "none" THEN Raised("compare", report.exc)
                            ELSE Returned("compare", Some(report.status),
                                          IF report.status = "fail" THEN 1 ELSE 0,
                                          PARITY_OUTPUTS)
       /\ UNCHANGED <<parityVars, auditVars, contractVars>>

\* A contracts entry point that exits 1 on status fail whatever the mode.
ContractMainIgnoresMode(stage, mode) ==
    LET stages == IF stage = "all" THEN <<"cohort", "classifier">> ELSE <<stage>>
        report == BuildPipelineContractReportForStages(contract_in, stages)
    IN /\ cli' = IF report.exc # "none"
                 THEN [Raised("contracts", report.exc) EXCEPT !.mode = Some(mode)]
                 ELSE [Returned("contracts", Some(report.status),
                                IF report.status = "fail" THEN 1 ELSE 0,
                                {"contract_report.json"}
                                \cup (IF report.status = "fail"
                                      THEN {"FAILED_CONTRACT.json"} ELSE {}))
                       EXCEPT !.mode = Some(mode)]
       /\ UNCHANGED <<parityVars, auditVars, contractVars>>

\* run_contract_checks.py main: build the report for the stage scope, write
\* it, exit 1 on status fail in mode fail.
ContractMain(stage, mode) ==
    LET stages == IF stage = "all" THEN <<"cohort", "classifier">> ELSE <<stage>>
        report == BuildPipelineContractReportForStages(contract_in, stages)
    IN /\ cli' = IF report.exc # "none"
                 THEN [Raised("contracts", report.exc) EXCEPT !.mode = Some(mode)]
                 ELSE [Returned("contracts", Some(report.status),
                                IF report.status = "fail" /\ mode = "fail" THEN 1 ELSE 0,
                                {"contract_report.json"}
                                \cup (IF report.status = "fail"
                                      THEN {"FAILED_CONTRACT.json"} ELSE {}))
                       EXCEPT !.mode = Some(mode)]
       /\ UNCHANGED <<parityVars, auditVars, contractVars>>

\* What an audit run meets besides the artifacts: the stage results, the
\* preflight and log findings, the metrics of the dated prior-run files and
\* the qa_summary.json found before the stages ran.
AuditRuns ==
    LET stage(rc) == [stage_id |-> "01_cohort", returncode |-> rc]
    IN {[stages |-> << stage(Some(0)) >>, preflight_findings |-> <<>>,
         log_findings |-> <<>>, prior_metrics |-> <<>>, pre_run_qa_summary |-> None],
        [stages |-> << stage(Some(0)) >>, preflight_findings |-> <<>>,
         log_findings |-> <<>>,
         prior_metrics |-> [cohort_rows |-> 2, classifier_rows |-> 2],
         pre_run_qa_summary |-> Some(QaSummary({}))],
        [stages |-> << stage(Some(0)) >>,
         preflight_findings |->
            << AuditFinding("P2", "preflight", "work_dir_mismatch", <<>>) >>,
         log_findings |-> <<>>, prior_metrics |-> <<>>,
         pre_run_qa_summary |-> Some([QaSummary({}) EXCEPT !.metrics.icu_link_rate = @ + 5])],
        [stages |-> << stage(Some(1)), stage(None) >>, preflight_findings |-> <<>>,
         log_findings |->
            << [stage_id |-> "01_cohort", line_number |-> 1, severity |-> "P1",
                pattern |-> "runtime_warning"] >>,
         prior_metrics |-> [cohort_rows |-> 4], pre_run_qa_summary |-> None]}

\* run_pipeline_audit.py main: validate the artifacts, resolve the baseline
\* metrics, compute the drift, build the report, then write the documents;
\* exit 1 on status fail.  The strictness is the one the parser accepts.
AuditMain(run) ==
    LET artifact_result == LoadAndValidateArtifacts(audit_in)
        baseline_metrics == ResolveBaselineMetrics(run.prior_metrics, run.pre_run_qa_summary)
        drift == ComputeMetricDrift(artifact_result.current_metrics, baseline_metrics)
        report == BuildAuditReport(run.stages, run.preflight_findings, artifact_result,
                                   drift.rows, run.log_findings, "fail_on_key_anomalies")
    IN /\ IF drift.exc # "none"
          THEN /\ cli' = Raised("audit", drift.exc)
               /\ UNCHANGED wd
          ELSE /\ cli' = Returned("audit", Some(report.status),
                                  IF report.status = "fail" THEN 1 ELSE 0, AUDIT_OUTPUTS)
               /\ wd' = [wd EXCEPT !.latest_audit = TRUE]
       /\ UNCHANGED <<store, now, last, auditVars, contractVars>>

\* The defects in the working directory of a command-line session.
MaxCliDefects == 1

\* The store an earlier session left: empty, or holding the snapshot "new"
\* of a healthy run in which the raters matched two rows.
EarlierStores ==
    LET w == [ParityView({}) EXCEPT
                 !.files[RATER_JOIN_AUDIT] = [valid |-> TRUE, doc |-> [matched_rows |-> Some(2)]]]
        dir == BaselineDir(Some("new"), None, 1)
        snapshot == BuildSnapshot(w)
    IN {<<>>,
        dir :> [files |-> w.files, debug |-> FALSE,
                manifest |-> Some([baseline_id |-> dir.name,
                                   label |-> None,
                                   captured_utc |-> 0,
                                   copied_files |-> REQUIRED_RELATIVE_ARTIFACTS,
                                   missing_files |-> <<>>,
                                   artifacts |-> snapshot.artifacts,
                                   metrics |-> snapshot.metrics,
                                   cohort_signature |-> snapshot.cohort_signature,
                                   classifier_signature |-> snapshot.classifier_signature,
                                   analysis_signatures |-> snapshot.analysis_signatures,
                                   rater_join_audit |-> snapshot.rater_join_audit]),
                mtime |-> 0, source |-> Some(w)]}

CliInit ==
    /\ \E S \in SetsUpTo(Defects, MaxCliDefects) :
          /\ wd = ParityView(S)
          /\ audit_in = AuditView(S)
          /\ contract_in = ContractView(S)
    /\ store \in EarlierStores
    /\ now = 0
    /\ last = [op |-> "init", dir |-> None, out |-> [exc |-> "none"]]
    /\ audit_out = [artifact_result |-> None, report |-> None]
    /\ contract_out = None
    /\ cli = NoInvocation
    /\ RunnerIdle

CliNext ==
    \/ CaptureMain(Some("old"), None) /\ UNCHANGED runnerVars
    \/ \E baseline \in {Latest, Explicit(BaselineDir(Some("old"), None, 1)),
                         Explicit(BaselineDir(Some("new"), None, 1))} :
          CompareMain(baseline) /\ UNCHANGED runnerVars
    \/ \E stage \in {"all", "cohort", "classifier"}, mode \in {"fail", "warn"} :
          ContractMain(stage, mode) /\ UNCHANGED runnerVars
    \/ \E run \in AuditRuns :
          AuditMain(run) /\ UNCHANGED runnerVars

SpecCli == CliInit /\ [][CliNext]_vars

(* C9: every invocation of the run-full-audit, compare-to-baseline and
   run-contract-checks entry points writes its report document before the
   process ends, whatever the state of the working directory. *)
C9_EveryInvocationWritesReport ==
    /\ cli.script = "audit" => "audit_report.json" \in cli.written
    /\ cli.script = "compare" => "parity_report.json" \in cli.written
    /\ cli.script = "contracts" => "contract_report.json" \in cli.written

(***************************************************************************)
(* write_contract_report: the run directories under debug/contracts.  The  *)
(* run id is the clock reading formatted to the second, so two calls       *)
(* within one second share a run directory.  A directory is the map from   *)
(* the names of its files to their contents.                               *)
(***************************************************************************)
\* write_contract_report: mkdir with exist_ok, contract_report.json written,
\* FAILED_CONTRACT.json written when the status is fail; nothing is removed.
WriteContractReport(report, dirs, run_id) ==
    LET before == IF run_id \in DOMAIN dirs THEN dirs[run_id] ELSE <<>>
        written == ("contract_report.json" :> report)
                   @@ (IF report.status = "fail"
                       THEN "FAILED_CONTRACT.json" :> report ELSE <<>>)
    IN (run_id :> (written @@ before)) @@ dirs

\* write_contract_report(report, work_dir=...) on a report the builder returned
WriteReport ==
    /\ ~IsNone(contract_out)
    /\ Get(contract_out).exc = "none"
    /\ last.op # "write_contract"
    /\ store' = WriteContractReport(Get(contract_out), store, TimestampId(now))
    /\ last' = [op |-> "write_contract", dir |-> Some(TimestampId(now)),
                out |-> [exc |-> "none", report |-> Get(contract_out)]]
    /\ UNCHANGED <<wd, now, auditVars, contractVars>>

\* The builder is called for a stage scope.
BuildForWrite(stages) ==
    /\ BuildContract(stages)
    /\ last' = [op |-> "build", dir |-> None, out |-> [exc |-> "none"]]
    /\ UNCHANGED <<wd, store, now>>

\* The clock moves to the next second.
Tick ==
    /\ now < MaxClock
    /\ now' = now + 1
    /\ UNCHANGED <<wd, store, last, auditVars, contractVars>>

WriteInit ==
    /\ \E S \in SetsUpTo(Defects, MaxCliDefects) : contract_in = ContractView(S)
    /\ contract_out = None
    /\ wd = "idle"
    /\ store = <<>>
    /\ now = 1
    /\ last = [op |-> "init", dir |-> None, out |-> [exc |-> "none"]]
    /\ RunnerIdle /\ AuditIdle /\ CliIdle

WriteNext ==
    \/ \E stages \in StageScopes :
          BuildForWrite(stages) /\ UNCHANGED <<runnerVars, cliVars>>
    \/ WriteReport /\ UNCHANGED <<runnerVars, cliVars>>
    \/ Tick /\ UNCHANGED <<runnerVars, cliVars>>

SpecWrite == WriteInit /\ [][WriteNext]_vars

ReportWritten == last.op = "write_contract"

(* C20: write_contract_report always writes contract_report.json, and the
   FAILED_CONTRACT marker file exists in the run directory iff the report
   status is fail: after a call with status pass or warning the run
   directory holds no marker. *)
C20_MarkerIffFail ==
    ReportWritten =>
        LET dir == store[Get(last.dir)]
        IN /\ "contract_report.json" \in DOMAIN dir
           /\ dir["contract_report.json"] = last.out.report
           /\ "FAILED_CONTRACT.json" \in DOMAIN dir <=> last.out.report.status = "fail"

(***************************************************************************)
(* build_audit_report over the stage records of a pipeline run.            *)
(***************************************************************************)
\* Stage records as build_audit_report reads them: any stage, run or skipped.
StageRecords ==
    {[stage_id |-> id, returncode |-> rc] :
        id \in {"01_cohort", "02_classifier"},
        rc \in {None} \cup {Some(c) : c \in ExitCodes}}

\* build_audit_report(pipeline_run=..., ...) on healthy artifacts, with no
\* drift rows and no log findings.
BuildStageReport(strictness, preflight_findings) ==
    /\ IsNone(audit_out)
    /\ audit_out' = Some(BuildAuditReport(audit_in, preflight_findings,
                                          LoadAndValidateArtifacts(AuditView({})),
                                          <<>>, <<>>, strictness))
    /\ UNCHANGED <<audit_in, contractVars>>

ReportInit ==
    /\ audit_in \in SeqsUpTo(StageRecords, MaxStages)
    /\ audit_out = None
    /\ RunnerIdle /\ ParityIdle /\ ContractIdle /\ CliIdle

ReportNext ==
    \E strictness \in Strictnesses,
       preflight_findings \in {<<>>, << AuditFinding("P2", "preflight",
                                                      "work_dir_mismatch", <<>>) >>} :
        BuildStageReport(strictness, preflight_findings)
        /\ UNCHANGED <<runnerVars, parityVars, cliVars>>

SpecReport == ReportInit /\ [][ReportNext]_vars

\* The stage_failed findings of the report, in order.
StageFailedFindings ==
    SelectSeq(Get(audit_out).findings, LAMBDA f : f.code = "stage_failed")

\* The records of stages that ran and exited non-zero, in order.
FailedRecords ==
    SelectSeq(audit_in, LAMBDA r : ~IsNone(r.returncode) /\ r.returncode # Some(0))

(* C19: build_audit_report adds exactly one P0 stage_failed finding for every
   stage record whose return code is non-null and non-zero, and none for a
   stage that exited zero or was skipped. *)
C19_OneStageFailedPerFailure ==
    ~IsNone(audit_out) =>
        /\ Len(StageFailedFindings) = Len(FailedRecords)
        /\ \A k \in 1..Len(StageFailedFindings) :
              /\ StageFailedFindings[k].severity = "P0"
              /\ StageFailedFindings[k].message =
                     <<FailedRecords[k].stage_id, Get(FailedRecords[k].returncode)>>

\* A run with a failed stage, a skipped one and one that exited zero, and
\* the single stage_failed finding of its report.
C19_Witness ==
    /\ ~IsNone(audit_out)
    /\ \E i, j, k \in 1..Len(audit_in) :
          /\ audit_in[i].returncode = Some(0)
          /\ audit_in[j].returncode = Some(2)
          /\ audit_in[k].returncode = None
    /\ Len(StageFailedFindings) = 1

(***************************************************************************)
(* The "latest" selector against the capture times in the store.           *)
(***************************************************************************)
\* Every directory of the store holds the manifest of a finished capture.
AllSnapshotsComplete == \A d \in DOMAIN store : ~IsNone(store[d].manifest)

CapturedUtc(d) == Get(store[d].manifest).captured_utc

(* C16: resolve_baseline_dir with selector "latest" returns the snapshot
   captured most recently among all snapshots in the store, after any
   sequence of captures. *)
C16_LatestIsMostRecentCapture ==
    AllSnapshotsComplete =>
        \A d \in ResolveBaselineDir(store, Latest) :
            \A e \in DOMAIN store : CapturedUtc(e) <= CapturedUtc(d)

(***************************************************************************)
(* The rater join audit as both the baseline compare and the artifact      *)
(* validator read it: one working directory, whose join audit document a   *)
(* rater stage rewrites between captures, compares and validations.        *)
(***************************************************************************)
RaterInit ==
    /\ \E doc \in RaterDocs :
          /\ wd = [ParityView({}) EXCEPT
                      !.files[RATER_JOIN_AUDIT] = [valid |-> TRUE, doc |-> doc]]
          /\ audit_in = [AuditView({}) EXCEPT !.rater = [valid |-> TRUE, doc |-> doc]]
    /\ store = <<>>
    /\ now = 0
    /\ last = [op |-> "init", dir |-> None, out |-> [exc |-> "none"]]
    /\ audit_out = [artifact_result |-> None, report |-> None]
    /\ RunnerIdle /\ ContractIdle /\ CliIdle

RaterNext ==
    \/ \E doc \in RaterDocs :
          RewriteRater(doc) /\ UNCHANGED <<runnerVars, cliVars>>
    \/ Capture(Some("old"), None)
          /\ UNCHANGED <<runnerVars, auditVars, contractVars, cliVars>>
    \/ \E dir \in DOMAIN store :
          Compare(dir) /\ UNCHANGED <<runnerVars, auditVars, contractVars, cliVars>>
    \/ Validate /\ UNCHANGED <<runnerVars, parityVars, cliVars>>

SpecRater == RaterInit /\ [][RaterNext]_vars

\* The document reports a matched-row count of zero, or no count at all.
ZeroOrAbsentCount(doc) ==
    \/ "matched_rows" \notin DOMAIN doc
    \/ doc.matched_rows = Some(0)

HasRaterZeroMatches(findings) ==
    \E i \in 1..Len(findings) :
        findings[i].code = "rater_zero_matches" /\ findings[i].severity = "P0"

(* C15: whenever the current run's rater join audit reports a matched-row
   count of zero, or holds no count, the baseline compare and the audit
   artifact validator each emit a P0 rater_zero_matches finding, whatever
   the baseline's match count is. *)
C15_ZeroMatchesAlwaysP0 ==
    /\ (last.op = "compare" /\ ZeroOrAbsentCount(wd.files[RATER_JOIN_AUDIT].doc)) =>
          /\ last.out.exc = "none"
          /\ HasRaterZeroMatches(last.out.findings)
    /\ (~IsNone(audit_out.artifact_result) /\ ZeroOrAbsentCount(audit_in.rater.doc)) =>
          HasRaterZeroMatches(Get(audit_out.artifact_result).findings)

(***************************************************************************)
(* Log scanning: scan_logs_for_findings.                                   *)
(* A log line is a sequence of fragments joined by single spaces.  What    *)
(* each regular expression finds in a fragment, searched without regard to *)
(* case, is tabulated; no expression matches across a joint of these       *)
(* fragments, so a line matches where one of its fragments does.           *)
(***************************************************************************)
MaxLines == 2
MaxTokens == 1

\* (severity, pattern_name) of LOG_PATTERNS, in table order.
LOG_PATTERNS ==
    << [severity |-> "P0", pattern_name |-> "traceback"],
       [severity |-> "P0", pattern_name |-> "error_token"],
       [severity |-> "P0", pattern_name |-> "exception_token"],
       [severity |-> "P1", pattern_name |-> "runtime_warning"],
       [severity |-> "P1", pattern_name |-> "convergence_warning"],
       [severity |-> "P1", pattern_name |-> "overflow"],
       [severity |-> "P1", pattern_name |-> "invalid_value"] >>

\* The one entry of DEFAULT_ALLOWLIST_PATTERNS.
DEFAULT_ALLOWLIST_PATTERNS == << "skipping_archive_export" >>

\* The expressions that re.search finds in each fragment under re.IGNORECASE:
\* \bERROR\b matches "error:" but not "ValueError", whose E follows a letter.
FragmentMatches ==
    [f \in {"Traceback (most recent call last):", "overflow raised error:",
            "ValueError: Exception", "runtimewarning: invalid value encountered",
            "ConvergenceWarning: overflow", "Skipping legacy archive xlsx export",
            "hello"} |->
        CASE f = "Traceback (most recent call last):" -> {"traceback"}
          [] f = "overflow raised error:" -> {"error_token", "overflow"}
          [] f = "ValueError: Exception" -> {"exception_token"}
          [] f = "runtimewarning: invalid value encountered" ->
                {"runtime_warning", "invalid_value"}
          [] f = "ConvergenceWarning: overflow" -> {"convergence_warning", "overflow"}
          [] f = "Skipping legacy archive xlsx export" -> {"skipping_archive_export"}
          [] OTHER -> {}]

Fragments == DOMAIN FragmentMatches

\* regex.search(line)
RegexSearch(pattern, line) == \E i \in 1..Len(line) : pattern \in FragmentMatches[line[i]]

\* A scan that records every table entry matching a line.
LineFindingsAllMatches(stage_id, line_number, line) ==
    IF \E a \in 1..Len(DEFAULT_ALLOWLIST_PATTERNS) :
            RegexSearch(DEFAULT_ALLOWLIST_PATTERNS[a], line)
    THEN <<>>
    ELSE Flatten([j \in 1..Len(LOG_PATTERNS) |->
            IF RegexSearch(LOG_PATTERNS[j].pattern_name, line)
            THEN << [stage_id |-> stage_id, line_number |-> line_number,
                     severity |-> LOG_PATTERNS[j].severity,
                     pattern |-> LOG_PATTERNS[j].pattern_name,
                     message |-> line] >>
            ELSE <<>>])

\* The body of the loop over the lines of one log: nothing for an
\* allow-listed line, else the first table entry that matches, then break.
LineFindings(stage_id, line_number, line) ==
    LET matching == {j \in 1..Len(LOG_PATTERNS) :
                        RegexSearch(LOG_PATTERNS[j].pattern_name, line)}
        first == CHOOSE j \in matching : \A k \in matching : j <= k
    IN IF \E a \in 1..Len(DEFAULT_ALLOWLIST_PATTERNS) :
             RegexSearch(DEFAULT_ALLOWLIST_PATTERNS[a], line)
       THEN <<>>
       ELSE IF matching = {} THEN <<>>
       ELSE << [stage_id |-> stage_id, line_number |-> line_number,
                severity |-> LOG_PATTERNS[first].severity,
                pattern |-> LOG_PATTERNS[first].pattern_name,
                message |-> line] >>

\* scan_logs_for_findings: the stages in order, a stage without a log file
\* skipped, the lines of each log in order, numbered from 1.
ScanLogsForFindings(stages) ==
    Flatten([s \in 1..Len(stages) |->
        IF ~stages[s].log_exists THEN <<>>
        ELSE Flatten([n \in 1..Len(stages[s].log) |->
                LineFindings(stages[s].stage_id, n, stages[s].log[n])])])

LogLines == UNION {[1..k -> Fragments] : k \in 0..MaxTokens}

\* scan_logs_for_findings(pipeline_run["stages"])
ScanLogs ==
    /\ IsNone(audit_out)
    /\ audit_out' = Some(ScanLogsForFindings(audit_in))
    /\ UNCHANGED <<audit_in, contractVars>>

\* A stage whose log was never written is put in front of the scanned one.
PrependStageWithoutLog ==
    /\ ~IsNone(audit_out)
    /\ Len(audit_in) = 1
    /\ audit_in' = << [stage_id |-> "01_cohort", log_exists |-> FALSE, log |-> <<>>] >>
                    \o audit_in
    /\ audit_out' = None
    /\ UNCHANGED contractVars

ScanInit ==
    /\ \E log \in SeqsUpTo(LogLines, MaxLines) :
          audit_in = << [stage_id |-> "02_classifier", log_exists |-> TRUE, log |-> log] >>
    /\ audit_out = None
    /\ RunnerIdle /\ ParityIdle /\ ContractIdle /\ CliIdle

ScanNext ==
    \/ ScanLogs /\ UNCHANGED <<runnerVars, parityVars, cliVars>>
    \/ PrependStageWithoutLog /\ UNCHANGED <<runnerVars, parityVars, cliVars>>

SpecScan == ScanInit /\ [][ScanNext]_vars

LogsScanned == ~IsNone(audit_out)

\* The findings scan_logs_for_findings returned for line n of stage s.
FindingsOfLine(s, n) ==
    {i \in 1..Len(Get(audit_out)) :
        /\ Get(audit_out)[i].stage_id = audit_in[s].stage_id
        /\ Get(audit_out)[i].line_number = n}

AllowListed(line) ==
    \E i \in 1..Len(line) : "skipping_archive_export" \in FragmentMatches[line[i]]

\* Entry j of the pattern table matches the line and no earlier entry does.
FirstMatch(line, j) ==
    /\ RegexSearch(LOG_PATTERNS[j].pattern_name, line)
    /\ \A k \in 1..(j - 1) : ~RegexSearch(LOG_PATTERNS[k].pattern_name, line)

(* C14: scan_logs_for_findings yields at most one finding per log line: none
   for a line matching an allow-list pattern; for any other line the severity
   and code of the first entry of the ordered pattern table that matches it,
   or nothing if no entry matches.  A line "Traceback (most recent call
   last):" that is not allow-listed yields exactly one finding, P0 traceback. *)
C14_FirstMatchPerLine ==
    LogsScanned =>
        \A s \in 1..Len(audit_in) : audit_in[s].log_exists =>
            \A n \in 1..Len(audit_in[s].log) :
                LET line == audit_in[s].log[n]
                    found == FindingsOfLine(s, n)
                IN /\ Cardinality(found) <= 1
                   /\ AllowListed(line) => found = {}
                   /\ ~AllowListed(line) =>
                         /\ \A j \in 1..Len(LOG_PATTERNS) : FirstMatch(line, j) =>
                               \E i \in found :
                                  /\ Get(audit_out)[i].severity = LOG_PATTERNS[j].severity
                                  /\ Get(audit_out)[i].pattern = LOG_PATTERNS[j].pattern_name
                         /\ (\A j \in 1..Len(LOG_PATTERNS) : ~FirstMatch(line, j))
                               => found = {}
                         /\ line = << "Traceback (most recent call last):" >> =>
                               \E i \in found : /\ Get(audit_out)[i].severity = "P0"
                                                 /\ Get(audit_out)[i].pattern = "traceback"

\* A scanned log whose second line matches two table entries, the later one
\* first in the line, and has the one finding of the earlier entry.
C14_Witness ==
    /\ LogsScanned
    /\ \E s \in 1..Len(audit_in) :
          /\ Len(audit_in[s].log) = 2
          /\ audit_in[s].log[1] = << "Traceback (most recent call last):" >>
          /\ audit_in[s].log[2] = << "overflow raised error:" >>
          /\ \E i \in FindingsOfLine(s, 2) : Get(audit_out)[i].pattern = "error_token"
          /\ Cardinality(FindingsOfLine(s, 1)) = 1

(***************************************************************************)
(* The union rules of the two frame validators, applied to frames whose    *)
(* flag columns take every combination of values.                          *)
(***************************************************************************)
MaxFlagRows == 2

Flags == {0, 1}

\* Cohort frames of up to MaxFlagRows rows; the union column is either the
\* current one or its deprecated alias.
FlagCohortFrames ==
    {[readable |-> TRUE,
      columns |-> (CohortColumns \ {"pco2_threshold_0_24h"}) \cup {union_col},
      rows |-> [i \in 1..Len(cells) |->
                   [CohortRow(i, cells[i][4]) EXCEPT
                       !.abg_hypercap_threshold = cells[i][1],
                       !.vbg_hypercap_threshold = cells[i][2],
                       !.unknown_hypercap_threshold = cells[i][3]]],
      inf_count |-> 0] :
        cells \in SeqsUpTo(Flags \X Flags \X Flags \X Flags, MaxFlagRows),
        union_col \in {"pco2_threshold_0_24h", "pco2_threshold_any"}}

\* Classifier frames of up to MaxFlagRows rows.
FlagClassifierFrames ==
    {[readable |-> TRUE,
      columns |-> ClassifierColumns,
      rows |-> [i \in 1..Len(cells) |->
                   [ClassifierRow(i, cells[i][1]) EXCEPT
                       !.hypercap_by_vbg = cells[i][2],
                       !.hypercap_by_bg = cells[i][3]]],
      inf_count |-> 0] :
        cells \in SeqsUpTo(Flags \X Flags \X Flags, MaxFlagRows)}

\* validate_cohort_contract(df)
ValidateCohort ==
    /\ contract_in.kind = "cohort"
    /\ IsNone(contract_out)
    /\ contract_out' = Some(ValidateCohortContract(contract_in.df))
    /\ UNCHANGED <<contract_in, auditVars>>

\* validate_classifier_contract(df)
ValidateClassifier ==
    /\ contract_in.kind = "classifier"
    /\ IsNone(contract_out)
    /\ contract_out' = Some(ValidateClassifierContract(contract_in.df))
    /\ UNCHANGED <<contract_in, auditVars>>

UnionInit ==
    /\ \/ \E df \in FlagCohortFrames : contract_in = [kind |-> "cohort", df |-> df]
       \/ \E df \in FlagClassifierFrames : contract_in = [kind |-> "classifier", df |-> df]
    /\ contract_out = None
    /\ RunnerIdle /\ ParityIdle /\ AuditIdle /\ CliIdle

UnionNext ==
    \/ ValidateCohort /\ UNCHANGED <<runnerVars, parityVars, cliVars>>
    \/ ValidateClassifier /\ UNCHANGED <<runnerVars, parityVars, cliVars>>

SpecUnion == UnionInit /\ [][UnionNext]_vars

FrameValidated == ~IsNone(contract_out)

\* The rows in which the derived flag is not the OR of its components.
UnionMismatchRows ==
    LET rows == contract_in.df.rows
    IN IF contract_in.kind = "cohort"
       THEN LET col == IF "pco2_threshold_0_24h" \in contract_in.df.columns
                       THEN "pco2_threshold_0_24h" ELSE "pco2_threshold_any"
            IN {i \in 1..Len(rows) :
                   (rows[i][col] = 1) # (\/ rows[i].abg_hypercap_threshold = 1
                                         \/ rows[i].vbg_hypercap_threshold = 1
                                         \/ rows[i].unknown_hypercap_threshold = 1)}
       ELSE {i \in 1..Len(rows) :
                (rows[i].hypercap_by_bg = 1) # (\/ rows[i].hypercap_by_abg = 1
                                                \/ rows[i].hypercap_by_vbg = 1)}

UnionMismatchCodes ==
    {"pco2_threshold_0_24h_mismatch", "pco2_threshold_any_mismatch", "bg_union_mismatch"}

UnionMismatchFindings ==
    {i \in 1..Len(Get(contract_out).findings) :
        Get(contract_out).findings[i].code \in UnionMismatchCodes}

(* C13: for the union rule of the cohort contract and of the classifier
   contract, a frame whose derived flag differs from the OR of its component
   flags in n > 0 rows gets exactly one mismatch finding, of severity error,
   reporting the count n; a frame with n = 0 gets none. *)
C13_OneMismatchFindingWithCount ==
    FrameValidated =>
        LET n == Cardinality(UnionMismatchRows)
        IN IF n = 0 THEN UnionMismatchFindings = {}
           ELSE /\ Cardinality(UnionMismatchFindings) = 1
                /\ \A i \in UnionMismatchFindings :
                      /\ Get(contract_out).findings[i].severity = "error"
                      /\ Get(contract_out).findings[i].message = <<n>>

\* A cohort frame with two mismatching rows, one of them through the
\* unknown-source flag alone, and its finding.
C13_Witness ==
    /\ FrameValidated
    /\ contract_in.kind = "cohort"
    /\ Cardinality(UnionMismatchRows) = 2
    /\ \E i \in UnionMismatchRows :
          /\ contract_in.df.rows[i].unknown_hypercap_threshold = 1
          /\ contract_in.df.rows[i].abg_hypercap_threshold = 0
          /\ contract_in.df.rows[i].vbg_hypercap_threshold = 0
    /\ \E i \in UnionMismatchFindings : Get(contract_out).findings[i].message = <<2>>

(***************************************************************************)
(* The status of an audit report against its merged findings.              *)
(***************************************************************************)
AuditReported == ~IsNone(audit_out.report)

HasSeverity(findings, sevs) == \E i \in 1..Len(findings) : findings[i].severity \in sevs

(* C11: under the default strictness fail_on_key_anomalies the audit report
   has status fail exactly when its merged findings hold a P0 or P1 finding,
   status warning exactly when they hold no P0/P1 finding and at least one
   P2 finding, and status pass otherwise. *)
C11_DefaultStatusFollowsSeverities ==
    (AuditReported /\ Get(audit_out.report).strictness = "fail_on_key_anomalies") =>
        LET report == Get(audit_out.report)
            hard == HasSeverity(report.findings, {"P0", "P1"})
            soft == HasSeverity(report.findings, {"P2"})
        IN /\ report.status = "fail" <=> hard
           /\ report.status = "warning" <=> (~hard /\ soft)
           /\ report.status = "pass" <=> (~hard /\ ~soft)

\* A default-strictness report failed by a P1 finding alone.
C11_Witness ==
    /\ AuditReported
    /\ Get(audit_out.report).strictness = "fail_on_key_anomalies"
    /\ Get(audit_out.report).status = "fail"
    /\ HasSeverity(Get(audit_out.report).findings, {"P1"})
    /\ ~HasSeverity(Get(audit_out.report).findings, {"P0"})

(***************************************************************************)
(* Drift severities against the thresholds of the rules.                   *)
(***************************************************************************)
DriftComputed == ~IsNone(audit_out) /\ Get(audit_out).exc = "none"

DriftRowsOf(m) ==
    {i \in 1..Len(Get(audit_out).rows) : Get(audit_out).rows[i].metric = m}

AbsoluteCompared ==
    {m \in (DOMAIN audit_in.current_metrics \cap DOMAIN audit_in.baseline_metrics)
           \cap DOMAIN DRIFT_RULES : DRIFT_RULES[m].compare = "absolute"}

(* C12: every metric compute_metric_drift compares in absolute mode has one
   row, whose severity is fail when abs_delta > fail_threshold, warning when
   warn_threshold < abs_delta <= fail_threshold, and ok otherwise; a delta
   equal to a threshold does not cross it. *)
C12_AbsoluteSeverityByThresholds ==
    DriftComputed =>
        \A m \in AbsoluteCompared :
            /\ Cardinality(DriftRowsOf(m)) = 1
            /\ \A i \in DriftRowsOf(m) :
                  LET row == Get(audit_out).rows[i]
                  IN /\ row.abs_delta =
                          Abs(audit_in.current_metrics[m] - audit_in.baseline_metrics[m])
                     /\ row.abs_delta > row.fail_threshold => row.severity = "fail"
                     /\ (row.warn_threshold < row.abs_delta
                             /\ row.abs_delta <= row.fail_threshold)
                           => row.severity = "warning"
                     /\ row.abs_delta <= row.warn_threshold => row.severity = "ok"

\* One absolute row sits on its warn threshold and is ok, another sits on
\* its fail threshold and is a warning.
C12_Witness ==
    /\ DriftComputed
    /\ \E i, j \in 1..Len(Get(audit_out).rows) :
          LET r == Get(audit_out).rows[i]
              q == Get(audit_out).rows[j]
          IN /\ r.compare_type = "absolute" /\ q.compare_type = "absolute"
             /\ r.abs_delta = r.warn_threshold /\ r.severity = "ok"
             /\ q.abs_delta = q.fail_threshold /\ q.severity = "warning"

(***************************************************************************)
(* Exit codes of the entry points against the status they report.          *)
(***************************************************************************)
StatusReported ==
    /\ cli.script \in {"audit", "compare", "contracts"}
    /\ cli.exc = "none"
    /\ ~IsNone(cli.status)

(* C17 as stated: run-full-audit, compare-to-baseline and
   run-contract-checks exit with code 1 when the report status is fail and
   with code 0 when it is pass or warning. *)
C17_ExitCodeFollowsStatus ==
    StatusReported =>
        cli.exit_code = Some(IF Get(cli.status) = "fail" THEN 1 ELSE 0)

(* C17, amended: run-full-audit and compare-to-baseline exit with code 1 when
   the report status is fail and with 0 when it is pass or warning;
   run-contract-checks does so in mode fail, and in mode warn exits with
   code 0 whatever the status. *)
C17_ExitCodeFollowsStatusAndMode ==
    StatusReported =>
        cli.exit_code = Some(IF Get(cli.status) = "fail" /\ cli.mode # Some("warn")
                             THEN 1 ELSE 0)

\* run-contract-checks in mode warn reported status fail and exited 0.
C17_Witness ==
    /\ StatusReported
    /\ cli.script = "contracts"
    /\ cli.mode = Some("warn")
    /\ cli.status = Some("fail")
    /\ cli.exit_code = Some(0)

(***************************************************************************)
(* The success flag of the run envelope against the stages executed.       *)
(***************************************************************************)
\* The positions in the launch history of the 05_consistency run.
ConsistencyLaunches == {i \in 1..Len(launched) : launched[i].pos = 0}

AllListedExitedZero ==
    /\ Len(ListedLaunches) = Len(stage_commands)
    /\ \A i \in 1..Len(ListedLaunches) : ListedLaunches[i].rc = 0

(* C18: the envelope's success flag is true iff no executed stage returned a
   non-zero code, the optional 05_consistency stage counted; that stage is
   executed only when requested, and only after every listed stage exited
   zero. *)
C18_SuccessIffNoStageFailed ==
    /\ \A i \in ConsistencyLaunches :
          /\ run_consistency_check
          /\ AllListedExitedZero
          /\ i = Len(launched)
    /\ ~IsNone(envelope) =>
          /\ Get(envelope).success <=> (\A i \in 1..Len(launched) : launched[i].rc = 0)
          /\ Get(envelope).success <=>
                (\A i \in 1..Len(Get(envelope).stages) :
                    \/ IsNone(Get(envelope).stages[i].returncode)
                    \/ Get(envelope).stages[i].returncode = Some(0))

\* Every listed stage exited zero, the consistency run did not, and the
\* envelope reports no success.
C18_Witness ==
    /\ ~IsNone(envelope)
    /\ Len(stage_commands) >= 2
    /\ AllListedExitedZero
    /\ \E i \in ConsistencyLaunches : launched[i].rc # 0
    /\ ~Get(envelope).success

(***************************************************************************)
(* Analysis exports whose sheets changed shape or checksum only.           *)
(***************************************************************************)
\* The sheets of the analysis exports that differ between the working
\* directory and the working directory as it was captured.
ChangedSheets(src) ==
    {<<a, n>> \in AnalysisNames \X {SHEET_ORDER[i] : i \in Indices(SHEET_ORDER)} :
        /\ n \in DOMAIN wd.files[a].sheets
        /\ wd.files[a].sheets[n] # src.files[a].sheets[n]}

\* The last call compared the working directory with a snapshot of it, and
\* since the capture only rows, cols or numeric sums of sheets of analysis
\* exports have changed: the same files exist, every other artifact is as it
\* was, every export is readable and holds the same sheet names.
OnlyAnalysisContentDiffers ==
    /\ last.op = "compare"
    /\ ~IsNone(store[Get(last.dir)].source)
    /\ LET src == Get(store[Get(last.dir)].source)
       IN /\ DOMAIN wd.files = Required
          /\ DOMAIN src.files = Required
          /\ \A a \in Required \ AnalysisNames : wd.files[a] = src.files[a]
          /\ \A a \in AnalysisNames :
                /\ wd.files[a].readable /\ src.files[a].readable
                /\ DOMAIN wd.files[a].sheets = DOMAIN src.files[a].sheets
          /\ ChangedSheets(src) # {}

\* The findings are P2 findings about sheet shape or numeric sum.
OnlyShapeOrSumFindings(findings) ==
    \A i \in Indices(findings) :
        /\ findings[i].severity = "P2"
        /\ findings[i].code \in {"analysis_shape_changed", "analysis_numeric_sum_drift"}

(* C21 as stated: when the only differences between the baseline and the
   current run are the sheet shape or the numeric checksum of analysis
   exports, compare_current_to_baseline reports only P2 findings
   (analysis_shape_changed / analysis_numeric_sum_drift) and status warning. *)
C21_ShapeOrChecksumIsWarning ==
    OnlyAnalysisContentDiffers =>
        /\ last.out.exc = "none"
        /\ OnlyShapeOrSumFindings(last.out.findings)
        /\ last.out.status = "warning"

\* A sheet whose rows or cols changed, or whose numeric sums are both finite
\* and more than the tolerance apart.
ReportableChange(src, a, n) ==
    LET curr == wd.files[a].sheets[n]
        base == src.files[a].sheets[n]
    IN \/ curr.rows # base.rows
       \/ curr.cols # base.cols
       \/ /\ curr.numeric_sum.finite /\ base.numeric_sum.finite
          /\ \/ curr.numeric_sum.v - base.numeric_sum.v > NUMERIC_SUM_TOLERANCE
             \/ base.numeric_sum.v - curr.numeric_sum.v > NUMERIC_SUM_TOLERANCE

(* C21 amended: when the only differences between the baseline and the
   current run are the sheet shape or the numeric checksum of analysis
   exports, and the rater join audit reports a non-zero match count, the
   compare returns only P2 findings (analysis_shape_changed /
   analysis_numeric_sum_drift) and never status fail: the status is warning
   when some sheet changed shape or its checksum moved by a finite amount
   above the tolerance 1e-6, and pass with no finding when every change is a
   checksum within the tolerance or an infinite checksum. *)
C21_ShapeOrChecksumNeverFails ==
    (OnlyAnalysisContentDiffers /\ RaterMatchesNonZero) =>
        /\ last.out.exc = "none"
        /\ OnlyShapeOrSumFindings(last.out.findings)
        /\ last.out.status # "fail"
        /\ LET src == Get(store[Get(last.dir)].source)
               reportable == \E c \in ChangedSheets(src) : ReportableChange(src, c[1], c[2])
           IN /\ reportable => last.out.status = "warning" /\ last.out.findings # <<>>
              /\ ~reportable => last.out.status = "pass" /\ last.out.findings = <<>>

C21_Witness ==
    /\ OnlyAnalysisContentDiffers /\ RaterMatchesNonZero
    /\ last.out.exc = "none"
    /\ last.out.status = "warning"
    /\ \E i \in Indices(last.out.findings) : last.out.findings[i].code = "analysis_shape_changed"

(***************************************************************************)
(* The rows of the drift table against the metrics that can be compared.   *)
(***************************************************************************)
\* The metrics with a current value, a baseline value and a rule.
Comparable ==
    (DOMAIN audit_in.current_metrics \cap DOMAIN audit_in.baseline_metrics)
        \cap DOMAIN DRIFT_RULES

(* C22: compute_metric_drift returns exactly one row for each metric that is
   present in the current map, in the baseline map and in the rule table,
   and no row for any other metric; when no metric qualifies (two empty maps
   included) it returns an empty result and does not raise. *)
C22_OneRowPerComparableMetric ==
    ~IsNone(audit_out) =>
        /\ Get(audit_out).exc = "none"
        /\ \A m \in Comparable : Cardinality(DriftRowsOf(m)) = 1
        /\ \A i \in 1..Len(Get(audit_out).rows) : Get(audit_out).rows[i].metric \in Comparable

(***************************************************************************)
(* A lower-is-better metric that decreased, in both drift classifiers.     *)
(*   audit_in / audit_out       = the maps given to compute_metric_drift   *)
(*                                and what it returned;                    *)
(*   contract_in / contract_out = the same maps given to                   *)
(*                                _metric_delta_findings, and its result.  *)
(***************************************************************************)
LOWER_IS_BETTER == "gas_source_other_rate"

\* _metric_delta_findings(baseline_metrics, current_metrics)
MetricDelta ==
    /\ IsNone(contract_out)
    /\ contract_out' = Some(MetricDeltaFindings(contract_in.baseline_metrics,
                                                contract_in.current_metrics))
    /\ UNCHANGED <<contract_in, auditVars>>

\* Both classifiers are given the same pair of maps: every current and
\* baseline value of the lower-is-better metric, beside a steady metric.
ImprovedInit ==
    /\ \E c, b \in 0..MaxMetric :
          LET maps == [current_metrics |-> (LOWER_IS_BETTER :> c) @@ ("icu_link_rate" :> 3),
                       baseline_metrics |-> (LOWER_IS_BETTER :> b) @@ ("icu_link_rate" :> 3)]
          IN audit_in = maps /\ contract_in = maps
    /\ audit_out = None
    /\ contract_out = None
    /\ RunnerIdle /\ ParityIdle /\ CliIdle

ImprovedNext ==
    \/ ComputeDrift /\ UNCHANGED <<runnerVars, parityVars, cliVars>>
    \/ MetricDelta /\ UNCHANGED <<runnerVars, parityVars, cliVars>>

SpecImproved == ImprovedInit /\ [][ImprovedNext]_vars

\* The current value of the lower-is-better metric is below its baseline.
Decreased(in) == in.current_metrics[LOWER_IS_BETTER] < in.baseline_metrics[LOWER_IS_BETTER]

\* Every row about the lower-is-better metric is classified ok.
ClassifiedOk(rows) ==
    \A i \in Indices(rows) :
        rows[i].metric = LOWER_IS_BETTER => rows[i].severity \in {"ok", "ok_improved"}

\* The comparison of the parity module does classify a decrease as improved.
ParityDecreaseIsImproved ==
    (~IsNone(contract_out) /\ Decreased(contract_in)) =>
        /\ ClassifiedOk(Get(contract_out).drift_rows)
        /\ Get(contract_out).findings = <<>>

(* C23: a lower-is-better metric (gas_source_other_rate) whose current value
   is below its baseline is classified ok (improved), whatever the size of
   the decrease, both by compute_metric_drift and by _metric_delta_findings,
   which raises no finding for it. *)
C23_DecreaseIsImproved ==
    /\ ParityDecreaseIsImproved
    /\ (~IsNone(audit_out) /\ Decreased(audit_in)) =>
           /\ Get(audit_out).exc = "none"
           /\ ClassifiedOk(Get(audit_out).rows)

(***************************************************************************)
(* Relative rules: row counts against a baseline that may be zero.         *)
(***************************************************************************)
\* Row counts run from 0 to MaxRowCount.
MaxRowCount == 23

RelativeMetrics == {m \in DOMAIN DRIFT_RULES : DRIFT_RULES[m].compare = "relative"}

\* A baseline row count is zero or three short of the largest count, so that
\* the current counts lie on, between and beyond the thresholds of the rule.
BaselineRowCounts == {0, MaxRowCount - 3}

RelativeInit ==
    /\ \E c \in MetricMaps(RelativeMetrics, 0..MaxRowCount),
          b \in MetricMaps(RelativeMetrics, BaselineRowCounts) :
          audit_in = [current_metrics |-> c, baseline_metrics |-> b]
    /\ audit_out = None
    /\ RunnerIdle /\ ParityIdle /\ ContractIdle /\ CliIdle

RelativeNext == ComputeDrift /\ UNCHANGED <<runnerVars, parityVars, cliVars>>

SpecRelative == RelativeInit /\ [][RelativeNext]_vars

\* The metrics compared under a relative rule.
RelativeCompared == Comparable \cap RelativeMetrics

(* C24: for a metric whose rule requests relative comparison (cohort_rows,
   classifier_rows), a baseline of exactly zero makes compute_metric_drift
   classify the row as warning with relative_delta absent, for every current
   value and without raising; with a non-zero baseline the row is classified
   by |current - baseline| / |baseline| against the thresholds, a relative
   delta equal to a threshold not crossing it. *)
C24_RelativeZeroBaselineIsWarning ==
    (~IsNone(audit_out) /\ RelativeCompared # {}) =>
        /\ Get(audit_out).exc = "none"
        /\ \A m \in RelativeCompared :
              /\ Cardinality(DriftRowsOf(m)) = 1
              /\ \A i \in DriftRowsOf(m) :
                    LET row == Get(audit_out).rows[i]
                        c == audit_in.current_metrics[m]
                        b == audit_in.baseline_metrics[m]
                        d == IF c < b THEN b - c ELSE c - b
                    IN IF b = 0
                       THEN row.severity = "warning" /\ IsNone(row.relative_delta)
                       ELSE /\ row.relative_delta = Some(<<d, b>>)
                            /\ row.severity =
                                  IF d * 100 > row.fail_threshold * b THEN "fail"
                                  ELSE IF d * 100 > row.warn_threshold * b THEN "warning"
                                  ELSE "ok"

\* One relative row has a zero baseline and a current value equal to it, and
\* is a warning; another sits on its fail threshold and is a warning too.
C24_Witness ==
    /\ DriftComputed
    /\ \E i, j \in 1..Len(Get(audit_out).rows) :
          LET r == Get(audit_out).rows[i]
              q == Get(audit_out).rows[j]
          IN /\ r.compare_type = "relative" /\ q.compare_type = "relative"
             /\ r.baseline_value = 0 /\ r.current_value = 0
             /\ r.severity = "warning" /\ IsNone(r.relative_delta)
             /\ q.baseline_value # 0
             /\ q.abs_delta * 100 = q.fail_threshold * q.baseline_value
             /\ q.severity = "warning"

(***************************************************************************)
(* Coverage of first_hco3 over the gas-positive rows.                      *)
(***************************************************************************)
MaxCoverageRows == 5

\* A row of a coverage frame: the gas-positive flag, a first_hco3 that is a
\* value or null, an enrollment route.
CoverageRow(flag, hco3, route) ==
    [pco2_threshold_0_24h |-> flag, first_hco3 |-> hco3, enrollment_route |-> route]

\* Frames of up to MaxCoverageRows rows holding first_hco3 and the threshold
\* flag; the frames without an enrollment_route column take every flag and
\* cell, those with the column are all gas-positive and take every route.
CoverageFrames ==
    {[columns |-> {"first_hco3", "pco2_threshold_0_24h"},
      rows |-> [i \in 1..Len(cells) |-> CoverageRow(cells[i][1], cells[i][2], "GAS")],
      inf_count |-> 0] :
        cells \in SeqsUpTo({0, 1} \X {None, Some(24)}, MaxCoverageRows)}
    \cup
    {[columns |-> {"first_hco3", "pco2_threshold_0_24h", "enrollment_route"},
      rows |-> [i \in 1..Len(cells) |-> CoverageRow(1, cells[i][1], cells[i][2])],
      inf_count |-> 0] :
        cells \in SeqsUpTo({None, Some(24)} \X {"GAS", "ICD_ONLY"}, MaxCoverageRows)}

CoverageInit ==
    /\ \E df \in CoverageFrames : contract_in = [kind |-> "cohort", df |-> df]
    /\ contract_out = None
    /\ RunnerIdle /\ ParityIdle /\ AuditIdle /\ CliIdle

CoverageNext == ValidateCohort /\ UNCHANGED <<runnerVars, parityVars, cliVars>>

SpecCoverage == CoverageInit /\ [][CoverageNext]_vars

\* The gas-positive rows of the frame, and those of them with a first_hco3.
GasPositiveRows ==
    {i \in Indices(contract_in.df.rows) : contract_in.df.rows[i].pco2_threshold_0_24h = 1}

GasPositiveCovered ==
    {i \in GasPositiveRows : contract_in.df.rows[i].first_hco3 # None}

\* The findings of the given severity about gas-positive coverage.
GasCoverageFindings(severity) ==
    {i \in Indices(Get(contract_out).findings) :
        LET f == Get(contract_out).findings[i]
        IN /\ f.code = "first_hco3_coverage_low"
           /\ f.message[1] = "gas-positive"
           /\ f.severity = severity}

(* C26: for the first_hco3 coverage rule over gas-positive rows, coverage
   below the fail floor 0.60 yields one error finding and no warning for
   that metric, coverage at or above 0.60 and below the warn floor 0.80
   yields one warning finding and no error, and coverage at or above 0.80,
   or a table with no gas-positive row, yields no finding for that metric. *)
C26_Hco3GasCoverageFloors ==
    FrameValidated =>
        LET n == Cardinality(GasPositiveRows)
            k == Cardinality(GasPositiveCovered)
            errors == Cardinality(GasCoverageFindings("error"))
            warnings == Cardinality(GasCoverageFindings("warning"))
        IN IF n > 0 /\ 10 * k < 6 * n THEN errors = 1 /\ warnings = 0
           ELSE IF n > 0 /\ 10 * k < 8 * n THEN errors = 0 /\ warnings = 1
           ELSE errors = 0 /\ warnings = 0

\* Five gas-positive rows: three covered is a warning (0.60 is not below the
\* fail floor); the other witness states are named by the same predicate.
C26_Witness ==
    /\ FrameValidated
    /\ Cardinality(GasPositiveRows) = 5
    /\ Cardinality(GasPositiveCovered) = 3
    /\ Cardinality(GasCoverageFindings("warning")) = 1
    /\ Cardinality(GasCoverageFindings("error")) = 0

(***************************************************************************)
(* Several rules of the cohort contract violated by one table.             *)
(***************************************************************************)
MaxRuleRows == 2

\* A cohort row with its own id, union flag, length of stay, timing flag and
\* first_hco3; the component flags are those of CohortRow.
RuleRow(hadm_id, union, los, usable, hco3) ==
    [hadm_id |-> hadm_id, subject_id |-> hadm_id, ed_stay_id |-> hadm_id,
     abg_hypercap_threshold |-> 1, vbg_hypercap_threshold |-> 0,
     unknown_hypercap_threshold |-> 0,
     pco2_threshold_0_24h |-> union, pco2_threshold_any |-> union,
     time_integrity_any |-> FALSE, timing_usable_for_model |-> usable,
     hospital_los_hours_model |-> los, first_hco3 |-> hco3,
     enrollment_route |-> "GAS"]

RuleColumns == CohortColumns \cup {"hospital_los_hours_model", "first_hco3"}

\* Every table of up to MaxRuleRows such rows: each row can repeat an id,
\* break the union, hold a negative length of stay, contradict the time
\* integrity flag and lack first_hco3, alone or together.
RuleFrames ==
    {[columns |-> RuleColumns,
      rows |-> [i \in 1..Len(cells) |->
                   RuleRow(cells[i][1], cells[i][2], cells[i][3], cells[i][4], cells[i][5])],
      inf_count |-> 0] :
        cells \in SeqsUpTo((1..MaxRuleRows) \X {0, 1} \X {Some(-1), Some(5)} \X {0, 1}
                               \X {None, Some(24)},
                           MaxRuleRows)}

RulesInit ==
    /\ \E df \in RuleFrames : contract_in = [kind |-> "cohort", df |-> df]
    /\ contract_out = None
    /\ RunnerIdle /\ ParityIdle /\ AuditIdle /\ CliIdle

RulesNext == ValidateCohort /\ UNCHANGED <<runnerVars, parityVars, cliVars>>

SpecRules == RulesInit /\ [][RulesNext]_vars

\* The rows in which the table violates each rule, taken one rule at a time.
RepeatedIdRows ==
    {i \in Indices(contract_in.df.rows) :
        \E j \in 1..(i - 1) : contract_in.df.rows[j].hadm_id = contract_in.df.rows[i].hadm_id}

BrokenUnionRows ==
    {i \in Indices(contract_in.df.rows) :
        LET r == contract_in.df.rows[i]
        IN (r.pco2_threshold_0_24h = 1)
           # (r.abg_hypercap_threshold = 1 \/ r.vbg_hypercap_threshold = 1
                  \/ r.unknown_hypercap_threshold = 1)}

NegativeLosRows ==
    {i \in Indices(contract_in.df.rows) :
        \E v \in contract_in.df.rows[i].hospital_los_hours_model : v < 0}

TimingContradictionRows ==
    {i \in Indices(contract_in.df.rows) :
        LET r == contract_in.df.rows[i]
        IN (r.timing_usable_for_model = 1) = r.time_integrity_any}

\* The finding the rule with this code produces for a table that violates it
\* in the rows of S and violates no other rule: one error with the count.
Reports(code, S) ==
    LET hits == {i \in Indices(Get(contract_out).findings) :
                    Get(contract_out).findings[i].code = code}
    IN IF S = {} THEN hits = {}
       ELSE /\ Cardinality(hits) = 1
            /\ \A i \in hits :
                  Get(contract_out).findings[i] = Finding("error", code, <<Cardinality(S)>>)

(* C25: the rules of validate_cohort_contract never mask one another: for
   any table the findings returned contain the finding each rule produces
   for its own violation, whatever other rules the table violates, and no
   finding of a rule the table does not violate; duplicate hadm_id rows, a
   union mismatch, a negative length of stay, a timing contradiction and a
   low first_hco3 coverage are each reported with their own count. *)
C25_RulesNeverMask ==
    FrameValidated =>
        /\ Reports("hadm_id_not_unique", RepeatedIdRows)
        /\ Reports("pco2_threshold_0_24h_mismatch", BrokenUnionRows)
        /\ Reports("hospital_los_hours_model_negative", NegativeLosRows)
        /\ Reports("timing_usable_for_model_inconsistent", TimingContradictionRows)
        /\ LET n == Cardinality(GasPositiveRows)
               k == Cardinality(GasPositiveCovered)
           IN /\ Cardinality(GasCoverageFindings("error")) = IF n > 0 /\ 10 * k < 6 * n THEN 1 ELSE 0
              /\ Cardinality(GasCoverageFindings("warning")) =
                    IF n > 0 /\ 10 * k >= 6 * n /\ 10 * k < 8 * n THEN 1 ELSE 0

\* One table violates all five rules and all five findings are returned.
C25_Witness ==
    /\ FrameValidated
    /\ RepeatedIdRows # {} /\ BrokenUnionRows # {} /\ NegativeLosRows # {}
    /\ TimingContradictionRows # {}
    /\ Cardinality(GasCoverageFindings("error")) = 1
    /\ \A code \in {"hadm_id_not_unique", "pco2_threshold_0_24h_mismatch",
                     "hospital_los_hours_model_negative",
                     "timing_usable_for_model_inconsistent"} :
          \E i \in Indices(Get(contract_out).findings) :
              Get(contract_out).findings[i].code = code

(***************************************************************************)
(* The signature of a workbook whose rows are reordered or repeated.       *)
(*   audit_in  = [origin, wb, repeated]: a workbook as it was first        *)
(*               written, as it is now, and whether a row was repeated;    *)
(*   audit_out = the signature of wb, once taken.                          *)
(***************************************************************************)
\* Workbooks of up to MaxRows rows over every id cell, the non-numeric one
\* included.
SignatureWorkbooks ==
    {[readable |-> TRUE, columns |-> IdColumns,
      rows |-> [i \in 1..Len(cells) |-> Row(cells[i][1], cells[i][2])]] :
        cells \in SeqsUpTo(IdCells \X IdCells, MaxRows)}

\* Two rows of the workbook change places.
SwapRows(i, j) ==
    /\ i < j
    /\ LET rows == audit_in.wb.rows
       IN audit_in' = [audit_in EXCEPT !.wb.rows = [rows EXCEPT ![i] = rows[j], ![j] = rows[i]]]
    /\ audit_out' = None
    /\ UNCHANGED contractVars

\* A row of the workbook is written once more at its end.
RepeatRow(i) ==
    /\ Len(audit_in.wb.rows) <= MaxRows
    /\ audit_in' = [audit_in EXCEPT !.wb.rows = Append(@, @[i]), !.repeated = TRUE]
    /\ audit_out' = None
    /\ UNCHANGED contractVars

\* _cohort_or_classifier_signature(path) on the workbook as it is now.
TakeSignature ==
    /\ IsNone(audit_out)
    /\ audit_out' = Some(CohortOrClassifierSignature(audit_in.wb))
    /\ UNCHANGED <<audit_in, contractVars>>

SignatureInit ==
    /\ \E wb \in SignatureWorkbooks : audit_in = [origin |-> wb, wb |-> wb, repeated |-> FALSE]
    /\ audit_out = None
    /\ RunnerIdle /\ ParityIdle /\ ContractIdle /\ CliIdle

SignatureNext ==
    \/ \E i, j \in Indices(audit_in.wb.rows) :
          SwapRows(i, j) /\ UNCHANGED <<runnerVars, parityVars, cliVars>>
    \/ \E i \in Indices(audit_in.wb.rows) :
          RepeatRow(i) /\ UNCHANGED <<runnerVars, parityVars, cliVars>>
    \/ TakeSignature /\ UNCHANGED <<runnerVars, parityVars, cliVars>>

SpecSignature == SignatureInit /\ [][SignatureNext]_vars

(* C27: the tabular artifact signature is order-independent: two tables
   whose rows are permutations of one another have equal signatures (rows,
   columns, unique counts and all three id hashes), and the unique counts
   and id hashes are also unchanged by repeating an existing row. *)
C27_SignatureOrderIndependent ==
    ~IsNone(audit_out) =>
        LET now_sig == Get(audit_out)
            then_sig == CohortOrClassifierSignature(audit_in.origin)
        IN /\ ~audit_in.repeated => now_sig = then_sig
           /\ now_sig.exc = "none" /\ then_sig.exc = "none"
           /\ now_sig.columns = then_sig.columns
           /\ now_sig.hadm_id_unique_count = then_sig.hadm_id_unique_count
           /\ now_sig.subject_id_unique_count = then_sig.subject_id_unique_count
           /\ now_sig.id_pair_unique_count = then_sig.id_pair_unique_count
           /\ now_sig.hadm_id_hash = then_sig.hadm_id_hash
           /\ now_sig.subject_id_hash = then_sig.subject_id_hash
           /\ now_sig.id_pair_hash = then_sig.id_pair_hash

\* Two rows with different numeric ids changed places, one of them was
\* repeated, and the signature was taken.
C27_Witness ==
    /\ ~IsNone(audit_out)
    /\ audit_in.repeated
    /\ Len(audit_in.origin.rows) > 1
    /\ audit_in.wb.rows[1] = audit_in.origin.rows[2]
    /\ audit_in.wb.rows[2] = audit_in.origin.rows[1]
    /\ audit_in.origin.rows[1].hadm_id > audit_in.origin.rows[2].hadm_id
    /\ audit_in.origin.rows[2].hadm_id # NonNumericId
    /\ Get(audit_out).hadm_id_hash = Sha256Join(<<audit_in.origin.rows[2].hadm_id, audit_in.origin.rows[1].hadm_id>>)

(***************************************************************************)
(* build_audit_report over what the parts of an audit run hand to it:      *)
(* preflight findings, an artifact result, stage records, drift rows and   *)
(* log findings.                                                           *)
(***************************************************************************)
MaxDriftRows == 2

\* Lists run_preflight_checks returns: none, the findings of a missing .env
\* file, and those of a .env file with a key missing and another WORK_DIR.
PreflightLists ==
    {<<>>,
     << AuditFinding("P2", "preflight", "work_dir_mismatch", <<>>) >>,
     << AuditFinding("P1", "preflight", "missing_dotenv_file", <<>>) >>,
     << AuditFinding("P1", "preflight", "missing_required_env_keys", <<>>),
        AuditFinding("P2", "preflight", "work_dir_mismatch", <<>>) >>}

\* Results of load_and_validate_artifacts: of healthy artifacts, of a stale
\* qa_summary and of a missing cohort workbook.
ArtifactResults ==
    {LoadAndValidateArtifacts(AuditView(S)) :
        S \in {{}, {Defect("stale", "qa_summary")}, {Defect("missing", "cohort_workbook")}}}

\* pipeline_run["stages"]: a clean run, and a run that stopped at a failure.
StageLists ==
    {<< [stage_id |-> "01_cohort", returncode |-> Some(0)] >>,
     << [stage_id |-> "01_cohort", returncode |-> Some(1)],
        [stage_id |-> "02_classifier", returncode |-> None] >>}

\* Frames compute_metric_drift returns for the metrics compared in absolute
\* mode against a baseline of zero: no row, or the first rows in sorted order
\* with a current value within, beyond the warning and beyond the fail
\* threshold.
DriftFrames ==
    LET names == SelectSeq(SORTED_METRICS, LAMBDA m : DRIFT_RULES[m].compare = "absolute")
    IN UNION {{[i \in 1..k |-> DriftRow(names[i], c[i], 0)] : c \in [1..k -> {0, 5, MaxMetric}]} :
                 k \in 0..MaxDriftRows}

\* Frames scan_logs_for_findings returns: none, one P1 line, a P0 and a P1 line.
LogFindingLists ==
    {<<>>,
     LineFindings("01_cohort", 1, << "ConvergenceWarning: overflow" >>),
     LineFindings("01_cohort", 1, << "Traceback (most recent call last):" >>)
        \o LineFindings("02_classifier", 2, << "ConvergenceWarning: overflow" >>)}

\* build_audit_report(pipeline_run=..., preflight_findings=..., ...,
\* strictness=...)
BuildMergedReport(strictness) ==
    /\ IsNone(audit_out)
    /\ audit_out' = Some(BuildAuditReport(audit_in.stages, audit_in.preflight_findings,
                                          audit_in.artifact_result, audit_in.drift_rows,
                                          audit_in.log_findings, strictness))
    /\ UNCHANGED <<audit_in, contractVars>>

MergeInit ==
    /\ audit_in \in [stages : StageLists, preflight_findings : PreflightLists,
                     artifact_result : ArtifactResults, drift_rows : DriftFrames,
                     log_findings : LogFindingLists]
    /\ audit_out = None
    /\ RunnerIdle /\ ParityIdle /\ ContractIdle /\ CliIdle

MergeNext ==
    \E strictness \in Strictnesses :
        BuildMergedReport(strictness) /\ UNCHANGED <<runnerVars, parityVars, cliVars>>

SpecMerge == MergeInit /\ [][MergeNext]_vars

\* The findings of the report that carry the given category.
OfCategory(findings, category) ==
    SelectSeq(findings, LAMBDA f : "category" \in DOMAIN f /\ f.category = category)

DriftRowsWith(severity) ==
    {i \in 1..Len(audit_in.drift_rows) : audit_in.drift_rows[i].severity = severity}

\* Nothing but the drift rows is amiss in what the report is built from.
OnlyDriftAnomaly ==
    /\ audit_in.preflight_findings = <<>>
    /\ audit_in.artifact_result.findings = <<>>
    /\ \A i \in 1..Len(audit_in.stages) : audit_in.stages[i].returncode = Some(0)
    /\ audit_in.log_findings = <<>>

(* C28: build_audit_report turns every drift row classified fail into
   exactly one P1 metric_drift_fail finding and every row classified warning
   into exactly one P2 metric_drift_warning finding, and adds nothing for ok
   rows; hence under the default policy a run whose only anomaly is a
   warning-level drift has status warning and one whose only anomaly is a
   fail-level drift has status fail. *)
C28_DriftRowsBecomeFindings ==
    ~IsNone(audit_out) =>
        LET report == Get(audit_out)
            drift_findings == OfCategory(report.findings, "drift")
            about(m) == {j \in 1..Len(drift_findings) : drift_findings[j].message[1] = m}
        IN /\ Len(drift_findings) = Cardinality(DriftRowsWith("fail") \cup DriftRowsWith("warning"))
           /\ \A i \in 1..Len(audit_in.drift_rows) :
                 LET row == audit_in.drift_rows[i]
                 IN IF row.severity = "ok" THEN about(row.metric) = {}
                    ELSE /\ Cardinality(about(row.metric)) = 1
                         /\ \A j \in about(row.metric) :
                               /\ drift_findings[j].severity =
                                     (IF row.severity = "fail" THEN "P1" ELSE "P2")
                               /\ drift_findings[j].code =
                                     (IF row.severity = "fail" THEN "metric_drift_fail"
                                      ELSE "metric_drift_warning")
           /\ (report.strictness = "fail_on_key_anomalies" /\ OnlyDriftAnomaly) =>
                 /\ DriftRowsWith("fail") # {} => report.status = "fail"
                 /\ (DriftRowsWith("fail") = {} /\ DriftRowsWith("warning") # {})
                       => report.status = "warning"

\* A report under the default policy of a run with a warning row and an ok
\* row of drift and nothing else amiss: one P2 finding, status warning.
C28_Witness ==
    /\ ~IsNone(audit_out)
    /\ Get(audit_out).strictness = "fail_on_key_anomalies"
    /\ OnlyDriftAnomaly
    /\ DriftRowsWith("warning") # {}
    /\ DriftRowsWith("ok") # {}
    /\ DriftRowsWith("fail") = {}
    /\ Get(audit_out).summary.p2_count = 1
    /\ Get(audit_out).status = "warning"

\* The part of seq from position first that is len long.
Segment(seq, first, len) == SubSeq(seq, first, first + len - 1)

(* C29: build_audit_report only counts and aggregates: every preflight,
   artifact and log-scan finding passed in appears in the report's findings
   unchanged (same severity, code and message) and in the order preflight,
   artifact, stage, drift, log; summary.total_findings equals the length of
   that list and p0_count + p1_count + p2_count equals total_findings. *)
C29_OnlyCountsAndAggregates ==
    ~IsNone(audit_out) =>
        LET report == Get(audit_out)
            findings == report.findings
            n_pre == Len(audit_in.preflight_findings)
            n_art == Len(audit_in.artifact_result.findings)
            n_log == Len(audit_in.log_findings)
            n_stage == Len(OfCategory(findings, "pipeline"))
            n_drift == Len(OfCategory(findings, "drift"))
        IN /\ Len(findings) = n_pre + n_art + n_stage + n_drift + n_log
           /\ Segment(findings, 1, n_pre) = audit_in.preflight_findings
           /\ Segment(findings, n_pre + 1, n_art) = audit_in.artifact_result.findings
           /\ Segment(findings, n_pre + n_art + 1, n_stage) = OfCategory(findings, "pipeline")
           /\ Segment(findings, n_pre + n_art + n_stage + 1, n_drift)
                 = OfCategory(findings, "drift")
           /\ Segment(findings, n_pre + n_art + n_stage + n_drift + 1, n_log)
                 = audit_in.log_findings
           /\ report.summary.total_findings = Len(findings)
           /\ report.summary.p0_count + report.summary.p1_count + report.summary.p2_count
                 = report.summary.total_findings

\* A report that holds findings of all five origins.
C29_Witness ==
    /\ ~IsNone(audit_out)
    /\ Len(audit_in.preflight_findings) > 1
    /\ audit_in.artifact_result.findings # <<>>
    /\ Len(audit_in.log_findings) > 1
    /\ OfCategory(Get(audit_out).findings, "pipeline") # <<>>
    /\ Len(OfCategory(Get(audit_out).findings, "drift")) > 1
    /\ Get(audit_out).summary.total_findings > 6

(* C30: for every value of the strictness argument, build_audit_report never
   returns status pass when the merged findings contain at least one P0
   finding. *)
C30_P0NeverPasses ==
    ~IsNone(audit_out) =>
        (CountSev(Get(audit_out).findings, "P0") > 0 => Get(audit_out).status # "pass")

\* Under the one strictness the command line accepts, a P0 or P1 finding
\* fails the run.
DefaultStrictnessFails ==
    (~IsNone(audit_out) /\ Get(audit_out).strictness = "fail_on_key_anomalies") =>
        (CountSev(Get(audit_out).findings, "P0") + CountSev(Get(audit_out).findings, "P1") > 0
            => Get(audit_out).status = "fail")

====
